---- MODULE Spec2Model ----
(***************************************************************************)
(* Authentication token lifecycle of agora_backend: the JWT codec          *)
(* (utils.GenerateJWT / utils.DecryptJWT), refresh-token rotation with the *)
(* Redis denylist (auth.Service.refreshTokens, isTokenBlacklisted,         *)
(* blacklistToken), the Logout handler, Login and JWTAuthMiddleware.       *)
(* Further: the password reset flow (RequestPasswordReset, ResetPassword   *)
(* and the Redis keys under password_reset:), and the state parameter of   *)
(* the Google authorization request (GenerateState / ValidateState).       *)
(* Further: registration with the input validator (Register,               *)
(* ValidateRegistrationInput and the three format checks), the middleware  *)
(* taken alone, and the handler of the Google callback.                    *)
(* Further: subreddit membership (CreateSubreddit, JoinSubreddit,          *)
(* LeaveSubreddit over the tables subreddits and subreddit_members).       *)
(*                                                                         *)
(* Time is counted in ticks; TicksPerSec ticks make one second.  The exp   *)
(* claim of a token is a whole number of seconds (tokenExpiry.Unix()),     *)
(* every clock reading (time.Now, time.Until, the validator of jwt.Parse)  *)
(* is a tick.  A token string is modelled by the record of what it         *)
(* encodes: HS256 signing and the JSON encoding of the claims map are      *)
(* deterministic, so two tokens are the same string exactly when they      *)
(* carry the same header, claims and signing key.                          *)
(***************************************************************************)
EXTENDS Integers, FiniteSets, Sequences, TLC

\* ---------------------------------------------------------------- bounds
TicksPerSec == 2
MaxTime == 4
MaxLife == 4
MaxFaults == 1
MaxCalls == 3
MaxLinks == 1
MaxPwdLen == 8

\* ------------------------------------------------- configuration (in ticks)
AccessLifetime == 2
RefreshLifetime == 4
JWTSecret == "supadupasecret"

\* ------------------------------------------------------------ error values
Nil == "nil"
ErrInvalidRefreshToken == "invalid refresh token"
ErrInvalidToken == "invalid JWT token"
ErrExpiredToken == "JWT token has expired"
ErrInvalidClaims == "invalid JWT claims"
ErrInvalidTokenType == "invalid token type"
ErrInvalidCredentials == "invalid email or password"
ErrOAuthAccountNoPassword == "account uses OAuth, no password set"
ErrValidation == "validation failed"
ErrMissingExpiry == "token missing expiry claim"
ErrAlreadyExpired == "token already expired"
ErrSetBlacklist == "failed to set blacklist key"

TokenTypeAccess == "access"
TokenTypeRefresh == "refresh"

\* ------------------------------------------------------------ token strings
\* A claim that is absent from the claims map, and a claim that is present
\* but not a JSON string.
MissingClaim == "<missing>"
NotAString == "<not-a-string>"
NoExp == -1

\* The empty string and a string that is not three base64url segments.
EmptyString ==
    [form |-> "empty", alg |-> "", key |-> "", sub |-> "", exp |-> NoExp, typ |-> ""]
Malformed ==
    [form |-> "malformed", alg |-> "", key |-> "", sub |-> "", exp |-> NoExp, typ |-> ""]

\* A three-segment token: alg is the header's algorithm, key the secret its
\* signature verifies under ("bad": under none, as after tampering).
Jwt(alg, key, sub, exp, typ) ==
    [form |-> "jwt", alg |-> alg, key |-> key, sub |-> sub, exp |-> exp, typ |-> typ]

\* time.Now().Add(tokenLifetime).Unix(): whole seconds, fraction dropped.
Unix(t) == t \div TicksPerSec

\* time.Unix(sec, 0) as a tick.
UnixTime(sec) == sec * TicksPerSec

GenerateJWT_NoLifetime(jwtSecret, tokenType, tokenLifetime, userID, t) ==
    IF tokenType # TokenTypeAccess /\ tokenType # TokenTypeRefresh
    THEN [token |-> EmptyString, err |-> ErrInvalidTokenType]
    ELSE [token |-> Jwt("HS256", jwtSecret, userID, Unix(t), tokenType),
          err |-> Nil]

GenerateJWT(jwtSecret, tokenType, tokenLifetime, userID, t) ==
    IF tokenType # TokenTypeAccess /\ tokenType # TokenTypeRefresh
    THEN [token |-> EmptyString, err |-> ErrInvalidTokenType]
    ELSE [token |-> Jwt("HS256", jwtSecret, userID, Unix(t + tokenLifetime), tokenType),
          err |-> Nil]

\* jwt.Parse with the key function of DecryptJWT: segments, key function
\* (HMAC methods only), signature, then the registered claims (exp).
jwtParse(tokenString, jwtSecret, t) ==
    IF tokenString.form # "jwt" THEN "malformed"
    ELSE IF tokenString.alg # "HS256" THEN "unverifiable"
    ELSE IF tokenString.key # jwtSecret THEN "signature"
    ELSE IF tokenString.exp # NoExp /\ ~(t < UnixTime(tokenString.exp)) THEN "expired"
    ELSE "valid"

Rejected(e) == [sub |-> "", exp |-> NoExp, err |-> e]

DecryptJWT_ExpiryAsInvalid(tokenString, jwtSecret, expectedTokenType, t) ==
    IF tokenString.form = "empty" THEN Rejected(ErrInvalidToken)
    ELSE LET parsed == jwtParse(tokenString, jwtSecret, t) IN
         IF parsed # "valid" THEN Rejected(ErrInvalidToken)
         ELSE IF tokenString.typ = MissingClaim \/ tokenString.typ # expectedTokenType
              THEN Rejected(ErrInvalidTokenType)
         ELSE IF tokenString.sub \in {MissingClaim, NotAString, ""}
              THEN Rejected(ErrInvalidClaims)
         ELSE [sub |-> tokenString.sub, exp |-> tokenString.exp, err |-> Nil]

DecryptJWT_NoTypeCheck(tokenString, jwtSecret, expectedTokenType, t) ==
    IF tokenString.form = "empty" THEN Rejected(ErrInvalidToken)
    ELSE LET parsed == jwtParse(tokenString, jwtSecret, t) IN
         IF parsed = "expired" THEN Rejected(ErrExpiredToken)
         ELSE IF parsed # "valid" THEN Rejected(ErrInvalidToken)
         ELSE IF tokenString.sub \in {MissingClaim, NotAString, ""}
              THEN Rejected(ErrInvalidClaims)
         ELSE [sub |-> tokenString.sub, exp |-> tokenString.exp, err |-> Nil]

DecryptJWT_SubjectFirst(tokenString, jwtSecret, expectedTokenType, t) ==
    IF tokenString.form = "empty" THEN Rejected(ErrInvalidToken)
    ELSE LET parsed == jwtParse(tokenString, jwtSecret, t) IN
         IF parsed = "expired" THEN Rejected(ErrExpiredToken)
         ELSE IF parsed # "valid" THEN Rejected(ErrInvalidToken)
         ELSE IF tokenString.sub \in {MissingClaim, NotAString, ""}
              THEN Rejected(ErrInvalidClaims)
         ELSE IF tokenString.typ = MissingClaim \/ tokenString.typ # expectedTokenType
              THEN Rejected(ErrInvalidTokenType)
         ELSE [sub |-> tokenString.sub, exp |-> tokenString.exp, err |-> Nil]

\* The result carries the subject and, of the claims map, the exp claim (the
\* only claim a caller reads).
DecryptJWT(tokenString, jwtSecret, expectedTokenType, t) ==
    IF tokenString.form = "empty" THEN Rejected(ErrInvalidToken)
    ELSE LET parsed == jwtParse(tokenString, jwtSecret, t) IN
         IF parsed = "expired" THEN Rejected(ErrExpiredToken)
         ELSE IF parsed # "valid" THEN Rejected(ErrInvalidToken)
         ELSE IF tokenString.typ = MissingClaim \/ tokenString.typ # expectedTokenType
              THEN Rejected(ErrInvalidTokenType)
         ELSE IF tokenString.sub \in {MissingClaim, NotAString, ""}
              THEN Rejected(ErrInvalidClaims)
         ELSE [sub |-> tokenString.sub, exp |-> tokenString.exp, err |-> Nil]


\* ------------------------------------------------------------- directory
UserIds == {"u1", "u2"}
EmailOf(id) == IF id = "u1" THEN "ann@agora.io" ELSE "bob@agora.io"
UnknownEmail == "nobody@agora.io"
GoodPassword == "Passw0rd1"
WrongPassword == "Wr0ngPass2"

\* user.Password is *string: <<>> is the nil pointer of a Google account.
NoPassword == <<>>
HashPassword(password) == <<"argon2id", password>>
VerifyPassword(rawPassword, passwordHash) == passwordHash = HashPassword(rawPassword)

\* The account whose removal the environment may decide on.
Deletable == {"u1"}

\* uuid.Parse succeeds on the identifiers the directory hands out.
IsUUID(userID) == userID \in UserIds

\* ------------------------------------------------------- password reset
ErrInvalidResetToken == "invalid or expired reset token"
ErrRetrieveResetToken == "failed to retrieve reset token"
ErrUpdatePassword == "failed to update password"

\* PasswordResetTokenLifetime (30 minutes), in ticks.
PasswordResetTokenLifetime == 3

\* The passwords a reset is tried with.  A password is read through the
\* classes of its characters: "U" upper case, "L" lower case, "D" digit,
\* "S" blank, "N" line break.
NewPassword == "N3wSecret9"
WeakPassword == "weakpassword"
ShortPassword == "Sh0rt"
PaddedPassword == " Passw0rd1"
Chars(password) ==
    CASE password = "Passw0rd1" -> <<"U", "L", "L", "L", "L", "D", "L", "L", "D">>
      [] password = "Wr0ngPass2" -> <<"U", "L", "D", "L", "L", "U", "L", "L", "L", "D">>
      [] password = "N3wSecret9" -> <<"U", "D", "L", "U", "L", "L", "L", "L", "L", "D">>
      [] password = "weakpassword" ->
            <<"L", "L", "L", "L", "L", "L", "L", "L", "L", "L", "L", "L">>
      [] password = "Sh0rt" -> <<"U", "L", "D", "L", "L">>
      [] password = " Passw0rd1" -> <<"S", "U", "L", "L", "L", "L", "D", "L", "L", "D">>
      [] OTHER -> <<>>

PasswordMinLen == 8
PasswordMaxLen == 30
UsernameMinLen == 3
UsernameMaxLen == 50

\* validator.go:18-33  the messages; ErrPasswordTooLong has no value of its
\* own in the const block and so repeats the one of ErrPasswordTooShort.
ErrEmailRequired == "email is required"
ErrEmailInvalid == "invalid email format"
ErrEmailNoWhitespaces == "email cannot have leading or trailing whitespace"
ErrEmailTaken == "email already registered"
ErrUsernameRequired == "username is required"
ErrUsernameNoWhitespaces == "username cannot have leading or trailing whitespace"
ErrUsernameTooShort == "username must be at least 3 characters"
ErrUsernameTooLong == "username must be at most 50 characters"
ErrUsernameInvalid == "username can only contain letters, numbers, and underscores"
ErrUsernameTaken == "username already taken"
ErrPasswordRequired == "password is required"
ErrPasswordNoWhitespaces == "password cannot have leading or trailing whitespace"
ErrPasswordTooShort == "password must be at least 8 characters"
ErrPasswordTooLong == "password must be at least 30 characters"
ErrPasswordWeak == "password must contain uppercase, lowercase, and number"

PasswordRegexMatch_TwoClasses(cs) ==
    \E i, j \in 1..Len(cs) :
        /\ i < j
        /\ cs[i] # cs[j] /\ {cs[i], cs[j]} \subseteq {"U", "L", "D"}
        /\ \A m \in i..j : cs[m] # "N"

\* PasswordRegex: an upper-case letter, a lower-case letter and a digit, in
\* any of the six orders, with ".*" in between; "." matches every character
\* but the line break ("N"), so the three stand in one line.
PasswordRegexMatch(cs) ==
    \E i, j, k \in 1..Len(cs) :
        /\ i < j /\ j < k
        /\ {cs[i], cs[j], cs[k]} = {"U", "L", "D"}
        /\ \A m \in i..k : cs[m] # "N"

\* White space: the classes "S" (blank) and "N" (line break) of a password,
\* and the blank of an email or a username.
WhiteSpace == {"S", "N", " "}

\* s == strings.TrimSpace(s)
Trimmed(cs) == cs = <<>> \/ (cs[1] \notin WhiteSpace /\ cs[Len(cs)] \notin WhiteSpace)

\* validator.go:109-127 on the classes of the characters: the error
\* returned, Nil for none.
PasswordFormatError(cs) ==
    IF cs = <<>> THEN ErrPasswordRequired
    ELSE IF ~Trimmed(cs) THEN ErrPasswordNoWhitespaces
    ELSE IF Len(cs) < PasswordMinLen THEN ErrPasswordTooShort
    ELSE IF Len(cs) > PasswordMaxLen THEN ErrPasswordTooLong
    ELSE IF ~PasswordRegexMatch(cs) THEN ErrPasswordWeak
    ELSE Nil

ValidatePasswordFormat_NoStrength(password) ==
    LET cs == Chars(password) IN
    /\ cs # <<>>
    /\ Trimmed(cs)

\* TRUE when the password passes (the code returns nil).
ValidatePasswordFormat(password) == PasswordFormatError(Chars(password)) = Nil

\* An email and a username are sequences of characters.
Letters == {"a", "b", "i", "n", "o", "w", "A"}
Digits == {"1", "7"}

\* EmailRegex  ^[a-zA-Z0-9._%+-]+@[a-zA-Z0-9.-]+\.[a-zA-Z]{2,}$
EmailRegexMatch(email) ==
    \E a, d \in 1..Len(email) :
        /\ email[a] = "@" /\ a > 1
        /\ \A i \in 1..(a - 1) : email[i] \in Letters \cup Digits \cup {".", "_", "%", "+", "-"}
        /\ email[d] = "." /\ d > a + 1
        /\ \A i \in (a + 1)..(d - 1) : email[i] \in Letters \cup Digits \cup {".", "-"}
        /\ Len(email) - d >= 2
        /\ \A i \in (d + 1)..Len(email) : email[i] \in Letters

\* validator.go:77-88
ValidateEmailFormat(email) ==
    IF email = <<>> THEN ErrEmailRequired
    ELSE IF ~Trimmed(email) THEN ErrEmailNoWhitespaces
    ELSE IF ~EmailRegexMatch(email) THEN ErrEmailInvalid
    ELSE Nil

\* UsernameRegex  ^[a-zA-Z0-9_]+$
UsernameRegexMatch(username) ==
    username # <<>> /\ \A i \in 1..Len(username) : username[i] \in Letters \cup Digits \cup {"_"}

\* validator.go:90-107
ValidateUsernameFormat(username) ==
    IF username = <<>> THEN ErrUsernameRequired
    ELSE IF ~Trimmed(username) THEN ErrUsernameNoWhitespaces
    ELSE IF Len(username) < UsernameMinLen THEN ErrUsernameTooShort
    ELSE IF Len(username) > UsernameMaxLen THEN ErrUsernameTooLong
    ELSE IF ~UsernameRegexMatch(username) THEN ErrUsernameInvalid
    ELSE Nil

NewValidationError(field, message) == [field |-> field, message |-> message]

\* The entry of a field, if its check failed.
Entry(field, message) ==
    IF message = Nil THEN <<>> ELSE <<NewValidationError(field, message)>>

\* The validation of the reset request: the new password's format.
ValidatePasswordResetInput(password) == ValidatePasswordFormat(password)

\* generateResetToken: 32 random bytes; the n-th token generated is modelled
\* by n, so no token is generated twice.  0 is a string nobody generated.
UnknownToken == 0


\* ------------------------------------------------------------------ state
VARIABLES
    now,        \* the clock, in ticks
    users,      \* the account directory: id -> [present, password]
    issued,     \* every token string handed to a client so far
    denylist,   \* Redis keys under refresh_token_blacklist: token -> [at, ttl]
    spent,      \* tokens for which a refreshTokens call has returned a pair
    proc,       \* the requests in flight, one record per request slot
    calls,      \* requests accepted so far
    faults,     \* store, directory and mail calls that have failed so far
    codec,      \* state of the codec harness (SpecCodec)
    resets,     \* Redis keys under password_reset: token -> [email, at, ttl]
    links,      \* the reset tokens generated so far, in order of generation
    rcall,      \* the ResetPassword calls in flight, one record per request slot
    guard,      \* state of the OAuth state harness (SpecState)
    request,    \* the RequestPasswordReset call that returned last
    origin,     \* account -> the tokens of the chains that a login of it began
    gate,       \* a request at JWTAuthMiddleware (SpecGate)
    reg,        \* a Register call and the directory it runs against (SpecRegister)
    pwd,        \* a password at ValidatePasswordFormat (SpecPassword)
    callback,   \* a request at the Google callback handler (SpecCallback)
    logout,     \* the tokens a Logout put on the denylist, the calls that began later
    subreddit   \* the subreddits and subreddit_members tables (SpecSubreddit)

resetVars == <<resets, links, rcall>>
harnessVars == <<gate, reg, pwd, callback, logout, subreddit>>
vars ==
    <<now, users, issued, denylist, spent, proc, calls, faults, codec, resetVars, guard,
      request, origin, harnessVars>>

\* Two request slots: two requests can be in flight at once.
Procs == {1, 2}
NoPair == [access |-> EmptyString, refresh |-> EmptyString]
Idle ==
    [pc |-> "idle", op |-> "none", tok |-> EmptyString, userID |-> "", exp |-> NoExp,
     err |-> Nil, pair |-> NoPair, fault |-> "none", after |-> FALSE]
CodecIdle ==
    [phase |-> "start", by |-> "none", secret |-> "", kind |-> "", life |-> 0, sub |-> "",
     at |-> 0, tok |-> EmptyString, t |-> 0, vsecret |-> "", vkind |-> "",
     out |-> Rejected(Nil), gerr |-> Nil]

\* A token whose payload was altered after signing.
Tampered == Jwt("HS256", "bad", "u1", Unix(MaxTime) + 1, TokenTypeRefresh)
Presentable == issued \cup {EmptyString, Malformed, Tampered}

\* A key is in the store until its TTL has run out.
Live(t) == {k \in DOMAIN denylist : t < denylist[k].at + denylist[k].ttl}
Expire(t) == [k \in Live(t) |-> denylist[k]]

\* ------------------------------------------------------------ OAuth state
\* A state string is a sequence of characters.  B64 stands for the base64url
\* alphabet, NonceLen for the length of the encoded 32 random bytes.
MaxValidations == 3
NonceLen == 2
B64 == {"A", "B", "="}
Dot == "."
StateChars == B64 \cup {Dot}
ErrStateFormat == "invalid state format"
ErrStateSignature == "invalid state signature"
ErrRandomBytes == "failed to generate random bytes"

\* base64.URLEncoding of HMAC-SHA256(jwtSecret, msg): a string of fixed
\* length over B64, different for different (jwtSecret, msg).  It spells the
\* key, the length of the message and the message, padded with "=".
KeyChar(jwtSecret) == IF jwtSecret = JWTSecret THEN "A" ELSE "B"
LenChar(n) == <<"A", "B", "=">>[n + 1]
HmacB64(jwtSecret, msg) ==
    <<KeyChar(jwtSecret), LenChar(Len(msg))>> \o msg \o
        [i \in 1..(NonceLen - Len(msg)) |-> "="]

\* part_011:12-25  randomB64 is the encoding of the bytes rand.Read gave.
GenerateState(jwtSecret, randomB64, randFails) ==
    IF randFails THEN [state |-> <<>>, err |-> ErrRandomBytes]
    ELSE [state |-> randomB64 \o <<Dot>> \o HmacB64(jwtSecret, randomB64), err |-> Nil]

\* strings.SplitN(state, ".", 2): cut at the first ".", if there is one.
SplitN2(state) ==
    LET dots == {i \in 1..Len(state) : state[i] = Dot} IN
    IF dots = {} THEN <<state>>
    ELSE LET i == CHOOSE d \in dots : \A e \in dots : d <= e IN
         <<SubSeq(state, 1, i - 1), SubSeq(state, i + 1, Len(state))>>

GuardIdle ==
    [phase |-> "start", secret |-> "", state |-> <<>>, pos |-> 0, vsecret |-> "",
     ok |-> FALSE, err |-> Nil, accepted |-> {}, replay |-> FALSE, n |-> 0, t |-> 0]

ValidateState_FormatOnly(state, jwtSecret) ==
    LET parts == SplitN2(state) IN
    IF Len(parts) # 2 THEN [ok |-> FALSE, err |-> ErrStateFormat]
    ELSE [ok |-> TRUE, err |-> Nil]

ValidateState_OneShot(state, jwtSecret) ==
    LET parts == SplitN2(state) IN
    IF Len(parts) # 2 THEN [ok |-> FALSE, err |-> ErrStateFormat]
    ELSE IF parts[2] # HmacB64(jwtSecret, parts[1]) \/ jwtSecret \in guard.accepted
         THEN [ok |-> FALSE, err |-> ErrStateSignature]
    ELSE [ok |-> TRUE, err |-> Nil]

\* part_011:27-44
ValidateState(state, jwtSecret) ==
    LET parts == SplitN2(state) IN
    IF Len(parts) # 2 THEN [ok |-> FALSE, err |-> ErrStateFormat]
    ELSE IF parts[2] # HmacB64(jwtSecret, parts[1])
         THEN [ok |-> FALSE, err |-> ErrStateSignature]
    ELSE [ok |-> TRUE, err |-> Nil]

\* A request without the access cookie, and the Authorization header as its
\* scheme prefix and the rest.
NoCookie ==
    [form |-> "absent", alg |-> "", key |-> "", sub |-> "", exp |-> NoExp, typ |-> ""]
Header(scheme, token) == [scheme |-> scheme, token |-> token]
NoHeader == Header("", EmptyString)

Unauthorized == [status |-> 401, next |-> FALSE, user_id |-> ""]

\* A request at JWTAuthMiddleware: its access cookie, its Authorization
\* header, the clock, and what the middleware did with it.
GateIdle ==
    [phase |-> "start", cookie |-> NoCookie, header |-> NoHeader, t |-> 0,
     out |-> Unauthorized]

\* The RequestPasswordReset call that returned last: its email, its error,
\* whether the mail was attempted, and the directory calls it made.
RequestIdle == [email |-> "", err |-> Nil, mailed |-> FALSE, lookups |-> 0]

\* No token has been issued.
NoOrigin == [a \in UserIds |-> {}]

\* A password at ValidatePasswordFormat, as the sequence of the classes of
\* its characters, and the error returned for it.
PwdIdle == [phase |-> "start", cs |-> <<>>, err |-> Nil]

\* A request at the Google callback handler: its query parameters, the
\* error of the service call, and what the handler did: the status and
\* error body it wrote, the cookies it set, whether it redirected, and
\* whether it ran into a nil *utils.TokenPair.
CallbackIdle ==
    [phase |-> "start", code |-> "", state |-> <<>>, err |-> Nil, pair |-> NoPair,
     status |-> 0, error |-> "", cookies |-> {}, redirect |-> FALSE, panic |-> FALSE,
     t |-> 0]

\* The emails and usernames a registration is tried with.
AnnEmail == <<"a", "n", "n", "@", "b", ".", "i", "o">>
BobEmail == <<"b", "o", "b", "@", "b", ".", "i", "o">>
BadEmail == <<"a", "n", "n", "@", "b">>
AnnName == <<"a", "n", "n">>
BobName == <<"b", "o", "b", "_", "7">>
ShortName == <<"a", "b">>
BadName == <<"a", " ", "b">>
ErrCreateUser == "create user failed"

\* A Register call: its input; the validation entries so far; the directory
\* calls it has made (lookups) and which of them failed (failed); whether its
\* email and username were taken when it began; its error.  With it, the
\* directory it runs against: the emails and usernames of the accounts, the
\* calls answered and the directory calls that have failed.
RegIdle ==
    [pc |-> "idle", email |-> <<>>, username |-> <<>>, password |-> "", errs |-> <<>>,
     lookups |-> 0, failed |-> {}, takenEmail |-> FALSE, takenName |-> FALSE,
     err |-> Nil, emails |-> {AnnEmail}, usernames |-> {AnnName}, n |-> 0, faults |-> 0]

\* A ResetPassword call: the token and password it was given; whether, when
\* it began, the token's window had passed (late), a ResetPassword of the
\* same token had returned success (after), the token's email resolved to no
\* account (orphan); the store and directory calls it has made (io); whether
\* it has written a password (changed).
ResetIdle ==
    [pc |-> "idle", tok |-> UnknownToken, password |-> "", late |-> FALSE, after |-> FALSE,
     orphan |-> FALSE, email |-> "", userID |-> "", err |-> Nil, fault |-> "none",
     io |-> 0, changed |-> FALSE]

\* The reset flow reads no clock: time shows in the TTL the store counts
\* down for each key, and in the age of each token since its request, which
\* is counted up to the end of the window.  A key is dropped when its TTL
\* reaches zero.
AgeResets ==
    [k \in {j \in DOMAIN resets : resets[j].ttl > 1} |-> [resets[k] EXCEPT !.ttl = @ - 1]]

InitReset ==
    /\ resets = [k \in {} |-> [email |-> "", ttl |-> 0]]
    /\ links = <<>>
    /\ rcall = [p \in Procs |-> ResetIdle]

\* No Logout has written to the denylist.
NoLogout == [done |-> {}, later |-> {}]

\* The value of a harness variable in the specifications that do not use it.
Unused == <<>>

InitHarness ==
    /\ request = RequestIdle
    /\ origin = NoOrigin
    /\ logout = NoLogout
    /\ gate = Unused
    /\ reg = Unused
    /\ pwd = Unused
    /\ callback = Unused
    /\ subreddit = Unused

\* The service after construction, for the specifications of one function.
InitService ==
    /\ now = 0
    /\ users = [id \in UserIds |->
                  [present |-> TRUE,
                   password |-> IF id = "u1" THEN HashPassword(GoodPassword) ELSE NoPassword]]
    /\ issued = {}
    /\ denylist = [k \in {} |-> [at |-> 0, ttl |-> 0]]
    /\ spent = {}
    /\ proc = [p \in Procs |-> Idle]
    /\ calls = 0
    /\ faults = 0
    /\ codec = CodecIdle
    /\ InitReset
    /\ guard = GuardIdle
    /\ request = RequestIdle
    /\ origin = NoOrigin
    /\ logout = NoLogout

Init ==
    /\ now = 0
    /\ users = [id \in UserIds |->
                  [present |-> TRUE,
                   password |-> IF id = "u1" THEN HashPassword(GoodPassword) ELSE NoPassword]]
    /\ issued = {}
    /\ denylist = [k \in {} |-> [at |-> 0, ttl |-> 0]]
    /\ spent = {}
    /\ proc = [p \in Procs |-> Idle]
    /\ calls = 0
    /\ faults = 0
    /\ codec = CodecIdle
    /\ InitReset
    /\ guard = GuardIdle
    /\ InitHarness

\* A request is taken by the first slot that has none in flight; the slot of
\* an answered request keeps its outcome until it takes the next one.  Slots
\* are interchangeable, so which free slot takes a request is immaterial.
Free(p) == proc[p].pc \in {"idle", "done"}
Accepts(p) == Free(p) /\ calls < MaxCalls /\ \A q \in Procs : q < p => ~Free(q)

\* ------------------------------------------------------ generateTokenPair
generateTokenPair_FirstUser(secret, userID, t) ==
    [access |-> GenerateJWT(secret, TokenTypeAccess, AccessLifetime, "u1", t).token,
     refresh |-> GenerateJWT(secret, TokenTypeRefresh, RefreshLifetime, "u1", t).token]

generateTokenPair(secret, userID, t) ==
    [access |-> GenerateJWT(secret, TokenTypeAccess, AccessLifetime, userID, t).token,
     refresh |-> GenerateJWT(secret, TokenTypeRefresh, RefreshLifetime, userID, t).token]

\* The tokens of a pair are recorded with the accounts whose login began the
\* chain the pair belongs to.
Descend(tp, accounts) ==
    [a \in UserIds |->
        IF a \in accounts THEN origin[a] \cup {tp.access, tp.refresh} ELSE origin[a]]

\* ------------------------------------------------------------------ Login
\* Input validation of the login request: both fields are required.
ValidateLoginInput(email, password) == email # "" /\ password # ""

GetByEmail(email) == {id \in UserIds : users[id].present /\ EmailOf(id) = email}

LoginResult_NoOAuthCheck(email, password, dirFails) ==
    IF ~ValidateLoginInput(email, password) THEN [err |-> ErrValidation, id |-> ""]
    ELSE IF dirFails \/ GetByEmail(email) = {} THEN [err |-> ErrInvalidCredentials, id |-> ""]
    ELSE LET id == CHOOSE u \in GetByEmail(email) : TRUE IN
         IF ~VerifyPassword(password, users[id].password)
         THEN [err |-> ErrInvalidCredentials, id |-> ""]
         ELSE [err |-> Nil, id |-> id]

LoginResult_UserNotFound(email, password, dirFails) ==
    IF ~ValidateLoginInput(email, password) THEN [err |-> ErrValidation, id |-> ""]
    ELSE IF dirFails THEN [err |-> ErrInvalidCredentials, id |-> ""]
    ELSE IF GetByEmail(email) = {} THEN [err |-> "user not found", id |-> ""]
    ELSE LET id == CHOOSE u \in GetByEmail(email) : TRUE IN
         IF users[id].password = NoPassword THEN [err |-> ErrOAuthAccountNoPassword, id |-> ""]
         ELSE IF ~VerifyPassword(password, users[id].password)
              THEN [err |-> ErrInvalidCredentials, id |-> ""]
         ELSE [err |-> Nil, id |-> id]

LoginResult(email, password, dirFails) ==
    IF ~ValidateLoginInput(email, password) THEN [err |-> ErrValidation, id |-> ""]
    ELSE IF dirFails \/ GetByEmail(email) = {} THEN [err |-> ErrInvalidCredentials, id |-> ""]
    ELSE LET id == CHOOSE u \in GetByEmail(email) : TRUE IN
         IF users[id].password = NoPassword THEN [err |-> ErrOAuthAccountNoPassword, id |-> ""]
         ELSE IF ~VerifyPassword(password, users[id].password)
              THEN [err |-> ErrInvalidCredentials, id |-> ""]
         ELSE [err |-> Nil, id |-> id]

\* service.go:83-105, one directory call; the slot ends with the error and
\* the pair of the call.
Login(p, email, password, dirFails) ==
    /\ Accepts(p)
    /\ dirFails => faults < MaxFaults
    /\ LET r == LoginResult(email, password, dirFails)
           tp == IF r.err = Nil THEN generateTokenPair(JWTSecret, r.id, now) ELSE NoPair
       IN
       /\ proc' = [proc EXCEPT ![p] =
                     [Idle EXCEPT !.pc = "done", !.op = "login", !.err = r.err, !.pair = tp,
                                  !.fault = IF dirFails /\ ValidateLoginInput(email, password)
                                            THEN "getbyemail" ELSE "none"]]
       /\ issued' = IF r.err = Nil THEN issued \cup {tp.access, tp.refresh} ELSE issued
       /\ origin' = IF r.err = Nil THEN Descend(tp, {r.id}) ELSE origin
       /\ faults' = IF dirFails /\ ValidateLoginInput(email, password)
                    THEN faults + 1 ELSE faults
    /\ calls' = calls + 1
    /\ UNCHANGED <<now, users, denylist, spent, codec, resetVars, guard, request, harnessVars>>

\* ---------------------------------------------------------- the denylist
\* A failed Exists call and an absent key both give false.
isTokenBlacklisted(token, t, storeFails) == ~storeFails /\ token \in Live(t)

\* time.Until(time.Unix(int64(exp), 0))
BlacklistTTL_Fixed(exp, t) == RefreshLifetime

BlacklistTTL(exp, t) == UnixTime(exp) - t

StoreSet_Short(token, ttl, t) ==
    [k \in Live(t) \cup {token} |-> IF k = token THEN [at |-> t, ttl |-> 1] ELSE denylist[k]]

\* redis.Set(key, "1", ttl)
StoreSet(token, ttl, t) ==
    [k \in Live(t) \cup {token} |-> IF k = token THEN [at |-> t, ttl |-> ttl] ELSE denylist[k]]

\* Handler.RefreshToken: the status answered for the error of refreshTokens.
RefreshStatus(err) ==
    IF err = Nil THEN 200 ELSE IF err = ErrInvalidRefreshToken THEN 401 ELSE 500

\* ---------------------------------------------------------- refreshTokens
\* service.go:235  DecryptJWT of the presented cookie value.
RefreshStart(p, token) ==
    /\ Accepts(p)
    /\ calls' = calls + 1
    /\ token \in Presentable
    /\ LET d == DecryptJWT(token, JWTSecret, TokenTypeRefresh, now)
           req == [Idle EXCEPT !.op = "refresh", !.tok = token, !.after = token \in spent]
       IN proc' = [proc EXCEPT ![p] =
                     IF d.err # Nil
                     THEN [req EXCEPT !.pc = "done", !.err = ErrInvalidRefreshToken]
                     ELSE [req EXCEPT !.pc = "r239", !.userID = d.sub]]
    /\ logout' = [logout EXCEPT !.later = IF token \in logout.done THEN @ \cup {p}
                                          ELSE @ \ {p}]
    /\ UNCHANGED <<now, users, issued, denylist, spent, faults, codec, resetVars, guard,
                   request, origin, gate, reg, pwd, callback, subreddit>>

\* service.go:239-246  the Exists call of isTokenBlacklisted, then uuid.Parse.
RefreshCheckDenylist(p, storeFails) ==
    /\ proc[p].pc = "r239"
    /\ storeFails => faults < MaxFaults
    /\ LET req == IF storeFails THEN [proc[p] EXCEPT !.fault = "exists"] ELSE proc[p] IN
       proc' = [proc EXCEPT ![p] =
                  IF isTokenBlacklisted(req.tok, now, storeFails) \/ ~IsUUID(req.userID)
                  THEN [req EXCEPT !.pc = "done", !.err = ErrInvalidRefreshToken]
                  ELSE [req EXCEPT !.pc = "r248"]]
    /\ faults' = IF storeFails THEN faults + 1 ELSE faults
    /\ UNCHANGED <<now, users, issued, denylist, spent, calls, codec, resetVars, guard,
                   request, origin, harnessVars>>

\* service.go:248-251  GetUserById; every error is answered alike.
RefreshGetUser(p, dirFails) ==
    /\ proc[p].pc = "r248"
    /\ dirFails => faults < MaxFaults
    /\ LET req == IF dirFails THEN [proc[p] EXCEPT !.fault = "getuser"] ELSE proc[p] IN
       proc' = [proc EXCEPT ![p] =
                  IF dirFails \/ ~users[req.userID].present
                  THEN [req EXCEPT !.pc = "done", !.err = ErrInvalidRefreshToken]
                  ELSE [req EXCEPT !.pc = "b311"]]
    /\ faults' = IF dirFails THEN faults + 1 ELSE faults
    /\ UNCHANGED <<now, users, issued, denylist, spent, calls, codec, resetVars, guard,
                   request, origin, harnessVars>>

BlacklistReturn_ErrorAfterWrite(req, err) ==
    [req EXCEPT !.pc = "done", !.err = IF err = Nil THEN ErrSetBlacklist ELSE err,
                !.exp = NoExp]

\* What the caller of blacklistToken does with its return value:
\* refreshTokens (service.go:253-256) returns the error as it is, the Logout
\* handler (part_014:111-143) logs it and answers 200 whatever it is.
BlacklistReturn(req, err) ==
    IF req.op = "logout" \/ err # Nil
    THEN [req EXCEPT !.pc = "done", !.err = err, !.exp = NoExp]
    ELSE [req EXCEPT !.pc = "r258", !.exp = NoExp]

\* service.go:311-318  blacklistToken decodes the token again and reads exp.
BlacklistDecrypt(p) ==
    /\ proc[p].pc = "b311"
    /\ LET d == DecryptJWT(proc[p].tok, JWTSecret, TokenTypeRefresh, now) IN
       proc' = [proc EXCEPT ![p] =
                  IF d.err # Nil THEN BlacklistReturn(proc[p], d.err)
                  ELSE IF d.exp = NoExp THEN BlacklistReturn(proc[p], ErrMissingExpiry)
                  ELSE [proc[p] EXCEPT !.pc = "b320", !.exp = d.exp]]
    /\ UNCHANGED <<now, users, issued, denylist, spent, calls, faults, codec, resetVars, guard,
                   request, origin, harnessVars>>

\* service.go:320-331  the TTL is computed and the key is written; the store
\* starts the TTL at the clock reading the TTL was computed from.
BlacklistSet(p, storeFails) ==
    /\ proc[p].pc = "b320"
    /\ storeFails => faults < MaxFaults
    /\ LET ttl == BlacklistTTL(proc[p].exp, now)
           req == IF storeFails /\ ttl > 0 THEN [proc[p] EXCEPT !.fault = "set"] ELSE proc[p]
       IN
       IF ttl <= 0
       THEN /\ ~storeFails
            /\ proc' = [proc EXCEPT ![p] = BlacklistReturn(req, ErrAlreadyExpired)]
            /\ UNCHANGED <<denylist, faults>>
       ELSE IF storeFails
       THEN /\ proc' = [proc EXCEPT ![p] = BlacklistReturn(req, ErrSetBlacklist)]
            /\ faults' = faults + 1
            /\ UNCHANGED denylist
       ELSE /\ proc' = [proc EXCEPT ![p] = BlacklistReturn(req, Nil)]
            /\ denylist' = StoreSet(req.tok, ttl, now)
            /\ UNCHANGED faults
    /\ logout' = IF BlacklistTTL(proc[p].exp, now) > 0 /\ ~storeFails /\ proc[p].op = "logout"
                 THEN [logout EXCEPT !.done = @ \cup {proc[p].tok}]
                 ELSE logout
    /\ UNCHANGED <<now, users, issued, spent, calls, codec, resetVars, guard,
                   request, origin, gate, reg, pwd, callback, subreddit>>

\* service.go:258  generateTokenPair for the subject of the presented token.
RefreshGenerate(p) ==
    /\ proc[p].pc = "r258"
    /\ LET tp == generateTokenPair(JWTSecret, proc[p].userID, now) IN
       /\ proc' = [proc EXCEPT ![p] = [proc[p] EXCEPT !.pc = "done", !.err = Nil,
                                                      !.pair = tp]]
       /\ issued' = issued \cup {tp.access, tp.refresh}
       /\ origin' = Descend(tp, {a \in UserIds : proc[p].tok \in origin[a]})
    /\ spent' = spent \cup {proc[p].tok}
    /\ UNCHANGED <<now, users, denylist, calls, faults, codec, resetVars, guard,
                   request, harnessVars>>

\* ------------------------------------------------------ JWTAuthMiddleware
JWTAuthMiddleware_ChecksAccount(cookie, authHeader, t) ==
    IF cookie = NoCookie /\ authHeader.scheme # "Bearer " THEN Unauthorized
    ELSE LET tokenString == IF cookie # NoCookie THEN cookie ELSE authHeader.token
             d == DecryptJWT(tokenString, JWTSecret, TokenTypeAccess, t)
         IN IF d.err # Nil \/ ~IsUUID(d.sub) THEN Unauthorized
            ELSE IF ~users[d.sub].present THEN Unauthorized
            ELSE [status |-> 200, next |-> TRUE, user_id |-> d.sub]

JWTAuthMiddleware_HeaderFirst(cookie, authHeader, t) ==
    IF cookie = NoCookie /\ authHeader.scheme # "Bearer " THEN Unauthorized
    ELSE LET tokenString == IF authHeader.scheme = "Bearer " THEN authHeader.token ELSE cookie
             d == DecryptJWT(tokenString, JWTSecret, TokenTypeAccess, t)
         IN IF d.err # Nil THEN Unauthorized
            ELSE [status |-> 200, next |-> TRUE, user_id |-> d.sub]

JWTAuthMiddleware(cookie, authHeader, t) ==
    IF cookie = NoCookie /\ authHeader.scheme # "Bearer " THEN Unauthorized
    ELSE LET tokenString == IF cookie # NoCookie THEN cookie ELSE authHeader.token
             d == DecryptJWT(tokenString, JWTSecret, TokenTypeAccess, t)
         IN IF d.err # Nil THEN Unauthorized
            ELSE [status |-> 200, next |-> TRUE, user_id |-> d.sub]

\* ----------------------------------------------------------------- Logout
\* router.go:13  the route runs JWTAuthMiddleware before the handler.
\* part_014:105-120  the refresh cookie goes to blacklistToken unverified.
LogoutStart(p, access, cookie) ==
    /\ Accepts(p)
    /\ JWTAuthMiddleware(access, NoHeader, now).next
    /\ calls' = calls + 1
    /\ cookie \in Presentable
    /\ proc' = [proc EXCEPT ![p] = [Idle EXCEPT !.pc = "b311", !.op = "logout",
                                                   !.tok = cookie]]
    /\ UNCHANGED <<now, users, issued, denylist, spent, faults, codec, resetVars, guard,
                   request, origin, harnessVars>>

\* part_014:106-110  no refresh cookie in the request.
LogoutNoCookie(p, access) ==
    /\ Accepts(p)
    /\ JWTAuthMiddleware(access, NoHeader, now).next
    /\ calls' = calls + 1
    /\ proc' = [proc EXCEPT ![p] = [Idle EXCEPT !.pc = "done", !.op = "nocookie"]]
    /\ UNCHANGED <<now, users, issued, denylist, spent, faults, codec, resetVars, guard,
                   request, origin, harnessVars>>

\* ------------------------------------------------------------ environment
\* The clock advances; the store drops the keys whose TTL has run out.
Tick ==
    /\ now < MaxTime
    /\ now' = now + 1
    /\ denylist' = Expire(now + 1)
    /\ UNCHANGED <<users, issued, spent, proc, calls, faults, codec, resetVars, guard,
                   request, origin, harnessVars>>

\* An account is removed from the directory.
DeleteUser(id) ==
    /\ users[id].present
    /\ users' = [users EXCEPT ![id].present = FALSE]
    /\ UNCHANGED <<now, issued, denylist, spent, proc, calls, faults, codec, resetVars, guard,
                   request, origin, harnessVars>>

Next ==
    \/ \E p \in Procs, e \in {EmailOf(id) : id \in UserIds} \cup {UnknownEmail, ""},
          pw \in {GoodPassword, WrongPassword}, f \in BOOLEAN : Login(p, e, pw, f)
    \/ \E p \in Procs, t \in Presentable : RefreshStart(p, t)
    \/ \E p \in Procs, f \in BOOLEAN : RefreshCheckDenylist(p, f)
    \/ \E p \in Procs, f \in BOOLEAN : RefreshGetUser(p, f)
    \/ \E p \in Procs : BlacklistDecrypt(p)
    \/ \E p \in Procs, f \in BOOLEAN : BlacklistSet(p, f)
    \/ \E p \in Procs : RefreshGenerate(p)
    \/ \E p \in Procs, a \in issued, t \in Presentable : LogoutStart(p, a, t)
    \/ \E p \in Procs, a \in issued : LogoutNoCookie(p, a)
    \/ Tick
    \/ \E id \in Deletable : DeleteUser(id)

Spec == Init /\ [][Next]_vars

\* --------------------------------------------------------- password reset
\* part_014:78-101  what the Login handler answers for the error of Login.
LoginResponse(err) ==
    IF err = Nil THEN [status |-> 200, error |-> ""]
    ELSE IF err = ErrValidation THEN [status |-> 400, error |-> "Validation failed"]
    ELSE IF err = ErrInvalidCredentials
         THEN [status |-> 401, error |-> "Invalid email or password"]
    ELSE IF err = ErrOAuthAccountNoPassword
         THEN [status |-> 400,
               error |-> "This account uses Google Sign-In. Please login with Google."]
    ELSE [status |-> 500, error |-> "Login failed"]

\* The answer of the call that returned last stays on record; the slot of a
\* call answered before it is cleared.
ResetFree(p) == rcall[p].pc \in {"idle", "done"}
ResetAnswer(p, req) ==
    [q \in Procs |-> IF q = p THEN req
                     ELSE IF rcall[q].pc = "done" THEN ResetIdle ELSE rcall[q]]
ResetAccepts(p) ==
    ResetFree(p) /\ calls < MaxCalls /\ \A q \in Procs : q < p => ~ResetFree(q)

\* redis.Set(key, email, PasswordResetTokenLifetime)
ResetStoreSet(token, email) ==
    [k \in DOMAIN resets \cup {token} |->
        IF k = token THEN [email |-> email, ttl |-> PasswordResetTokenLifetime]
        ELSE resets[k]]

ResetStoreDel_Keep(token) == resets

ResetStoreDel_SameEmail(token) ==
    [k \in {j \in DOMAIN resets : token \notin DOMAIN resets
                                   \/ resets[j].email # resets[token].email} |-> resets[k]]

\* redis.Del(key)
ResetStoreDel(token) == [k \in DOMAIN resets \ {token} |-> resets[k]]

ErrResetStore == "failed to send password reset email: store"
ErrResetMail == "failed to send password reset email: mail"

RequestResult_AccountCheck(email, storeFails, mailFails) ==
    IF GetByEmail(email) = {} THEN "user not found"
    ELSE IF storeFails THEN ErrResetStore
    ELSE IF mailFails THEN ErrResetMail
    ELSE Nil

RequestResult_MailSwallowed(email, storeFails, mailFails) ==
    IF storeFails THEN ErrResetStore ELSE Nil

\* service.go:156-165  the error returned: the error of Set or of
\* SendForgotPasswordEmail, wrapped in the same message.
RequestResult(email, storeFails, mailFails) ==
    IF storeFails THEN ErrResetStore
    ELSE IF mailFails THEN ErrResetMail
    ELSE Nil

\* service.go:152-166  the token is generated, stored, and mailed; the mail
\* is not attempted when the store call failed.  No directory call is made.
RequestPasswordReset(email, storeFails, mailFails) ==
    /\ calls < MaxCalls
    /\ Len(links) < MaxLinks
    /\ ~(storeFails /\ mailFails)
    /\ (storeFails \/ mailFails) => faults < MaxFaults
    /\ LET resetToken == Len(links) + 1 IN
       /\ links' = Append(links,
                     [email |-> email, age |-> 0, stored |-> ~storeFails,
                      used |-> FALSE, delfail |-> FALSE])
       /\ resets' = IF storeFails THEN resets ELSE ResetStoreSet(resetToken, email)
    /\ request' = [email |-> email, err |-> RequestResult(email, storeFails, mailFails),
                   mailed |-> ~storeFails, lookups |-> 0]
    /\ faults' = IF storeFails \/ mailFails THEN faults + 1 ELSE faults
    /\ calls' = calls + 1
    /\ UNCHANGED <<now, users, issued, denylist, spent, proc, codec, rcall, guard,
                   origin, harnessVars>>

\* service.go:169-172  the password is validated before anything else.
ResetStart(p, resetToken, password) ==
    /\ ResetAccepts(p)
    /\ resetToken \in 0..Len(links)
    /\ calls' = calls + 1
    /\ LET known == resetToken # UnknownToken
           req == [ResetIdle EXCEPT
                     !.tok = resetToken, !.password = password,
                     !.late = known /\ links[resetToken].age >= PasswordResetTokenLifetime,
                     !.after = known /\ links[resetToken].used,
                     !.orphan = known /\ GetByEmail(links[resetToken].email) = {}]
       IN rcall' = IF ~ValidatePasswordResetInput(password)
                   THEN ResetAnswer(p, [req EXCEPT !.pc = "done", !.err = ErrValidation])
                   ELSE [rcall EXCEPT ![p] = [req EXCEPT !.pc = "g174"]]
    /\ UNCHANGED <<now, users, issued, denylist, spent, proc, faults, codec, resets, links,
                   guard, request, origin, harnessVars>>

\* service.go:173-180  redis Get: a missing key is ErrInvalidResetToken, any
\* other error is wrapped.
ResetGet(p, storeFails) ==
    /\ rcall[p].pc = "g174"
    /\ storeFails => faults < MaxFaults
    /\ LET req == [rcall[p] EXCEPT !.io = @ + 1] IN
       rcall' = IF storeFails
                THEN ResetAnswer(p, [req EXCEPT !.pc = "done", !.err = ErrRetrieveResetToken,
                                                !.fault = "get"])
                ELSE IF req.tok \notin DOMAIN resets
                THEN ResetAnswer(p, [req EXCEPT !.pc = "done", !.err = ErrInvalidResetToken])
                ELSE [rcall EXCEPT ![p] =
                        [req EXCEPT !.pc = "u181", !.email = resets[req.tok].email]]
    /\ faults' = IF storeFails THEN faults + 1 ELSE faults
    /\ UNCHANGED <<now, users, issued, denylist, spent, proc, calls, codec, resets, links,
                   guard, request, origin, harnessVars>>

ResetAccount_DistinctMiss(userEmail, dirFails) ==
    IF dirFails \/ GetByEmail(userEmail) = {} THEN [err |-> "user not found", id |-> ""]
    ELSE LET id == CHOOSE u \in GetByEmail(userEmail) : TRUE IN
         IF users[id].password = NoPassword THEN [err |-> ErrOAuthAccountNoPassword, id |-> ""]
         ELSE [err |-> Nil, id |-> id]

ResetAccount_NoOAuthCheck(userEmail, dirFails) ==
    IF dirFails \/ GetByEmail(userEmail) = {} THEN [err |-> ErrInvalidResetToken, id |-> ""]
    ELSE [err |-> Nil, id |-> CHOOSE u \in GetByEmail(userEmail) : TRUE]

\* service.go:181-188  the account of the stored email; every error of the
\* lookup is answered as ErrInvalidResetToken.
ResetAccount(userEmail, dirFails) ==
    IF dirFails \/ GetByEmail(userEmail) = {} THEN [err |-> ErrInvalidResetToken, id |-> ""]
    ELSE LET id == CHOOSE u \in GetByEmail(userEmail) : TRUE IN
         IF users[id].password = NoPassword THEN [err |-> ErrOAuthAccountNoPassword, id |-> ""]
         ELSE [err |-> Nil, id |-> id]

ResetGetByEmail(p, dirFails) ==
    /\ rcall[p].pc = "u181"
    /\ dirFails => faults < MaxFaults
    /\ LET r == ResetAccount(rcall[p].email, dirFails)
           req == [rcall[p] EXCEPT !.io = @ + 1,
                                   !.fault = IF dirFails THEN "getbyemail" ELSE @]
       IN rcall' = IF r.err # Nil
                   THEN ResetAnswer(p, [req EXCEPT !.pc = "done", !.err = r.err])
                   ELSE [rcall EXCEPT ![p] = [req EXCEPT !.pc = "u190", !.userID = r.id]]
    /\ faults' = IF dirFails THEN faults + 1 ELSE faults
    /\ UNCHANGED <<now, users, issued, denylist, spent, proc, calls, codec, resets, links,
                   guard, request, origin, harnessVars>>

\* The directory's password update: the account's hash is replaced; an
\* account that is gone is left as it is.
UpdatePassword(id, password) ==
    IF users[id].present THEN [users EXCEPT ![id].password = HashPassword(password)]
    ELSE users

\* service.go:190-193
ResetUpdate(p, dirFails) ==
    /\ rcall[p].pc = "u190"
    /\ dirFails => faults < MaxFaults
    /\ LET req == [rcall[p] EXCEPT !.io = @ + 1] IN
       IF dirFails
       THEN /\ rcall' = ResetAnswer(p, [req EXCEPT !.pc = "done", !.err = ErrUpdatePassword,
                                                     !.fault = "update"])
            /\ faults' = faults + 1
            /\ UNCHANGED users
       ELSE /\ rcall' = [rcall EXCEPT ![p] =
                           [req EXCEPT !.pc = "d195", !.changed = users[req.userID].present]]
            /\ users' = UpdatePassword(req.userID, req.password)
            /\ UNCHANGED faults
    /\ UNCHANGED <<now, issued, denylist, spent, proc, calls, codec, resets, links, guard,
                   request, origin, harnessVars>>

ResetDelReturn_Surfaced(storeFails) ==
    IF storeFails THEN "error deleting redis key" ELSE Nil

\* service.go:195-201  an error of Del is logged; the call returns nil.
ResetDelReturn(storeFails) == Nil

ResetDel(p, storeFails) ==
    /\ rcall[p].pc = "d195"
    /\ storeFails => faults < MaxFaults
    /\ LET req == [rcall[p] EXCEPT !.io = @ + 1, !.fault = IF storeFails THEN "del" ELSE @]
           err == ResetDelReturn(storeFails)
       IN
       /\ rcall' = ResetAnswer(p, [req EXCEPT !.pc = "done", !.err = err])
       /\ resets' = IF storeFails THEN resets ELSE ResetStoreDel(req.tok)
       /\ links' = [links EXCEPT ![req.tok].used = @ \/ err = Nil,
                                 ![req.tok].delfail = @ \/ storeFails]
    /\ faults' = IF storeFails THEN faults + 1 ELSE faults
    /\ UNCHANGED <<now, users, issued, denylist, spent, proc, calls, codec, guard,
                   request, origin, harnessVars>>

\* One tick passes for the store.
StoreTick ==
    /\ \E k \in DOMAIN links : links[k].age < PasswordResetTokenLifetime
    /\ resets' = AgeResets
    /\ links' = [k \in DOMAIN links |->
                    [links[k] EXCEPT !.age = IF @ < PasswordResetTokenLifetime
                                             THEN @ + 1 ELSE @]]
    /\ UNCHANGED <<now, users, issued, denylist, spent, proc, calls, faults, codec, rcall,
                   guard, request, origin, harnessVars>>

\* Password reset, the passing of time and the removal of accounts together.
ResetEmails == {EmailOf(id) : id \in UserIds}
ResetPasswords == {NewPassword, WrongPassword, WeakPassword}

NextAccount ==
    \/ \E e \in ResetEmails, sf, mf \in BOOLEAN : RequestPasswordReset(e, sf, mf)
    \/ \E p \in Procs, tk \in 0..Len(links), pw \in ResetPasswords : ResetStart(p, tk, pw)
    \/ \E p \in Procs, f \in BOOLEAN : ResetGet(p, f)
    \/ \E p \in Procs, f \in BOOLEAN : ResetGetByEmail(p, f)
    \/ \E p \in Procs, f \in BOOLEAN : ResetUpdate(p, f)
    \/ \E p \in Procs, f \in BOOLEAN : ResetDel(p, f)
    \/ StoreTick
    \/ \E id \in Deletable : DeleteUser(id)

SpecAccount == Init /\ [][NextAccount]_vars

\* ----------------------------------------------- RequestPasswordReset alone
\* Reset requests for the emails of the accounts and for an email of no
\* account, while time passes and accounts are removed.
RequestEmails == ResetEmails \cup {UnknownEmail}

NextRequest ==
    \/ \E e \in RequestEmails, sf, mf \in BOOLEAN : RequestPasswordReset(e, sf, mf)
    \/ StoreTick
    \/ \E id \in UserIds : DeleteUser(id)

SpecRequest == Init /\ [][NextRequest]_vars

\* ------------------------------------------------------------ Login alone
\* Login against every directory the program can be in: the first account
\* has its original password or the one a reset gave it, the second account
\* has none; accounts may be removed and time may pass between the calls.
LoginEmails == {EmailOf(id) : id \in UserIds} \cup {UnknownEmail, ""}
LoginPasswords == {GoodPassword, NewPassword, ""}

InitLogin ==
    /\ now = 0
    /\ users \in {[id \in UserIds |->
                     [present |-> TRUE,
                      password |-> IF id = "u1" THEN HashPassword(pw) ELSE NoPassword]] :
                  pw \in {GoodPassword, NewPassword}}
    /\ issued = {}
    /\ denylist = [k \in {} |-> [at |-> 0, ttl |-> 0]]
    /\ spent = {}
    /\ proc = [p \in Procs |-> Idle]
    /\ calls = 0
    /\ faults = 0
    /\ codec = CodecIdle
    /\ InitReset
    /\ guard = GuardIdle
    /\ InitHarness

NextLogin ==
    \/ \E p \in Procs, e \in LoginEmails, pw \in LoginPasswords, f \in BOOLEAN :
          Login(p, e, pw, f)
    \/ Tick
    \/ \E id \in UserIds : DeleteUser(id)

SpecLogin == InitLogin /\ [][NextLogin]_vars



\* ------------------------------------------------------- the codec alone
\* GenerateJWT and DecryptJWT applied to inputs drawn from bounded sets: a
\* token is issued (or a string made elsewhere is presented), time may pass,
\* and the token is verified.
Secrets == {JWTSecret, "othersecret"}
Kinds == {TokenTypeAccess, TokenTypeRefresh, "other"}
Subjects == {"u1", "not-a-uuid", ""}
Lifetimes == 1..MaxLife
ForeignTokens ==
    {EmptyString, Malformed} \cup
    {Jwt(a, k, sb, e, ty) :
        a \in {"HS256", "none"}, k \in Secrets \cup {"bad"},
        sb \in {"u1", "", MissingClaim, NotAString}, e \in {NoExp, 1, 2},
        ty \in {TokenTypeAccess, TokenTypeRefresh, MissingClaim, "other"}}

InitCodec ==
    /\ now = 0
    /\ users = [id \in UserIds |->
                  [present |-> TRUE,
                   password |-> IF id = "u1" THEN HashPassword(GoodPassword) ELSE NoPassword]]
    /\ issued = {}
    /\ denylist = [k \in {} |-> [at |-> 0, ttl |-> 0]]
    /\ spent = {}
    /\ proc = [p \in Procs |-> Idle]
    /\ calls = 0
    /\ faults = 0
    /\ codec \in {[CodecIdle EXCEPT !.t = t0] : t0 \in 0..MaxTime}
    /\ InitReset
    /\ guard = GuardIdle
    /\ InitHarness

CodecIssue(secret, kind, life, sub) ==
    /\ codec.phase = "start"
    /\ LET g == GenerateJWT(secret, kind, life, sub, codec.t) IN
       codec' = [codec EXCEPT !.phase = "held", !.by = "issue", !.secret = secret,
                              !.kind = kind, !.life = life, !.sub = sub, !.at = codec.t,
                              !.tok = g.token, !.gerr = g.err]
    /\ UNCHANGED <<now, users, issued, denylist, spent, proc, calls, faults, resetVars, guard,
                   request, origin, harnessVars>>

CodecPresent(token) ==
    /\ codec.phase = "start"
    /\ codec' = [codec EXCEPT !.phase = "held", !.by = "present", !.tok = token]
    /\ UNCHANGED <<now, users, issued, denylist, spent, proc, calls, faults, resetVars, guard,
                   request, origin, harnessVars>>

CodecElapse ==
    /\ codec.phase = "held"
    /\ codec.t < MaxTime
    /\ codec' = [codec EXCEPT !.t = codec.t + 1]
    /\ UNCHANGED <<now, users, issued, denylist, spent, proc, calls, faults, resetVars, guard,
                   request, origin, harnessVars>>

CodecVerify(secret, kind) ==
    /\ codec.phase = "held"
    /\ codec.gerr = Nil
    /\ codec' = [codec EXCEPT !.phase = "verified", !.vsecret = secret, !.vkind = kind,
                              !.out = DecryptJWT(codec.tok, secret, kind, codec.t)]
    /\ UNCHANGED <<now, users, issued, denylist, spent, proc, calls, faults, resetVars, guard,
                   request, origin, harnessVars>>

NextCodec ==
    \/ \E sc \in Secrets, k \in Kinds, l \in Lifetimes, sb \in Subjects :
          CodecIssue(sc, k, l, sb)
    \/ \E tk \in ForeignTokens : CodecPresent(tk)
    \/ CodecElapse
    \/ \E sc \in Secrets, k \in {TokenTypeAccess, TokenTypeRefresh} : CodecVerify(sc, k)

SpecCodec == InitCodec /\ [][NextCodec]_vars


\* ------------------------------------------------- the OAuth state alone
\* GenerateState and ValidateState applied to inputs drawn from bounded
\* sets: a state is generated, one of its characters may be replaced, and it
\* is validated, again and again, while time passes in between.
Nonces == [1..NonceLen -> B64]

InitState ==
    /\ now = 0
    /\ users = [id \in UserIds |->
                  [present |-> TRUE,
                   password |-> IF id = "u1" THEN HashPassword(GoodPassword) ELSE NoPassword]]
    /\ issued = {}
    /\ denylist = [k \in {} |-> [at |-> 0, ttl |-> 0]]
    /\ spent = {}
    /\ proc = [p \in Procs |-> Idle]
    /\ calls = 0
    /\ faults = 0
    /\ codec = CodecIdle
    /\ InitReset
    /\ guard = GuardIdle
    /\ InitHarness

\* service.go:107-118  CreateGoogleURL hands the generated state out.
GuardGenerate(secret, randomB64, randFails) ==
    /\ guard.phase = "start"
    /\ LET g == GenerateState(secret, randomB64, randFails) IN
       guard' = [guard EXCEPT !.phase = IF g.err = Nil THEN "held" ELSE "failed",
                              !.secret = secret, !.state = g.state, !.err = g.err]
    /\ UNCHANGED <<now, users, issued, denylist, spent, proc, calls, faults, codec, resetVars,
                   request, origin, harnessVars>>

\* One character of the state is replaced by another one.
GuardTamper(pos, ch) ==
    /\ guard.phase = "held"
    /\ guard.pos = 0
    /\ pos \in 1..Len(guard.state)
    /\ ch # guard.state[pos]
    /\ guard' = [guard EXCEPT !.pos = pos, !.state = [guard.state EXCEPT ![pos] = ch]]
    /\ UNCHANGED <<now, users, issued, denylist, spent, proc, calls, faults, codec, resetVars,
                   request, origin, harnessVars>>

\* service.go:125-127  HandleGoogleCallback validates the state it is given.
GuardValidate(secret) ==
    /\ guard.phase \in {"held", "validated"}
    /\ guard.n < MaxValidations
    /\ LET v == ValidateState(guard.state, secret) IN
       guard' = [guard EXCEPT !.phase = "validated", !.vsecret = secret, !.ok = v.ok,
                              !.err = v.err, !.replay = secret \in guard.accepted,
                              !.accepted = IF v.ok THEN @ \cup {secret} ELSE @,
                              !.n = @ + 1]
    /\ UNCHANGED <<now, users, issued, denylist, spent, proc, calls, faults, codec, resetVars,
                   request, origin, harnessVars>>

GuardElapse ==
    /\ guard.phase = "validated"
    /\ guard.t < MaxTime
    /\ guard' = [guard EXCEPT !.t = @ + 1]
    /\ UNCHANGED <<now, users, issued, denylist, spent, proc, calls, faults, codec, resetVars,
                   request, origin, harnessVars>>

NextState ==
    \/ \E sc \in Secrets, nc \in Nonces, f \in BOOLEAN : GuardGenerate(sc, nc, f)
    \/ \E i \in 1..(2 * NonceLen + 3), ch \in StateChars : GuardTamper(i, ch)
    \/ \E sc \in Secrets : GuardValidate(sc)
    \/ GuardElapse

SpecState == InitState /\ [][NextState]_vars


\* ------------------------------------------------------- Register alone
\* Register applied to inputs drawn from bounded sets, call after call,
\* against a directory that starts with one account and gains the accounts
\* the calls create; directory calls may fail.
RegEmails == {AnnEmail, BobEmail, BadEmail, <<>>}
RegNames == {AnnName, BobName, ShortName, BadName, <<>>}
RegPasswords == {GoodPassword, WeakPassword, ""}

\* validator.go:146-156  the three format checks, each adding its entry.
FormatErrors(email, username, password) ==
    Entry("email", ValidateEmailFormat(email)) \o
    Entry("username", ValidateUsernameFormat(username)) \o
    Entry("password", PasswordFormatError(Chars(password)))

BusinessValidation_Always(errs) == TRUE

\* validator.go:158  the lookups run if the format checks left no entry.
BusinessValidation(errs) == Len(errs) = 0

\* validator.go:129-143  the error of the Exists call is dropped: a failed
\* call leaves alreadyExists false.
ValidateEmailAvailability(email, dirFails) ==
    IF ~dirFails /\ email \in reg.emails THEN ErrEmailTaken ELSE Nil
ValidateUsernameAvailability(username, dirFails) ==
    IF ~dirFails /\ username \in reg.usernames THEN ErrUsernameTaken ELSE Nil

RegFrame ==
    UNCHANGED <<now, users, issued, denylist, spent, proc, calls, faults, codec, resetVars,
                guard, request, origin, gate, pwd, callback, logout, subreddit>>

\* service.go:69-77, validator.go:145-158
RegStart(email, username, password) ==
    /\ reg.pc \in {"idle", "done"}
    /\ reg.n < MaxCalls
    /\ LET errs == FormatErrors(email, username, password)
           req == [reg EXCEPT !.email = email, !.username = username, !.password = password,
                              !.errs = errs, !.lookups = 0, !.failed = {}, !.err = Nil,
                              !.takenEmail = email \in reg.emails,
                              !.takenName = username \in reg.usernames, !.n = @ + 1]
       IN reg' = IF BusinessValidation(errs) THEN [req EXCEPT !.pc = "e159"]
                 ELSE [req EXCEPT !.pc = "done", !.err = ErrValidation]
    /\ RegFrame

\* validator.go:159-161
RegExistsByEmail(dirFails) ==
    /\ reg.pc = "e159"
    /\ dirFails => reg.faults < MaxFaults
    /\ reg' = [reg EXCEPT !.pc = "n162", !.lookups = @ + 1,
                          !.errs = @ \o Entry("email",
                                              ValidateEmailAvailability(reg.email, dirFails)),
                          !.failed = IF dirFails THEN @ \cup {"email"} ELSE @,
                          !.faults = IF dirFails THEN @ + 1 ELSE @]
    /\ RegFrame

\* validator.go:162-168, service.go:70-77
RegExistsByUsername(dirFails) ==
    /\ reg.pc = "n162"
    /\ dirFails => reg.faults < MaxFaults
    /\ LET errs == reg.errs \o Entry("username",
                                      ValidateUsernameAvailability(reg.username, dirFails))
           req == [reg EXCEPT !.errs = errs, !.lookups = @ + 1,
                              !.failed = IF dirFails THEN @ \cup {"username"} ELSE @,
                              !.faults = IF dirFails THEN @ + 1 ELSE @]
       IN reg' = IF Len(errs) > 0 THEN [req EXCEPT !.pc = "done", !.err = ErrValidation]
                 ELSE [req EXCEPT !.pc = "c79"]
    /\ RegFrame

\* service.go:79-80  CreateUser; the unique indexes of the users table
\* (model.go:19-20) refuse a second account with the email or the username.
RegCreate(dirFails) ==
    /\ reg.pc = "c79"
    /\ dirFails => reg.faults < MaxFaults
    /\ LET req == [reg EXCEPT !.pc = "done", !.lookups = @ + 1,
                              !.failed = IF dirFails THEN @ \cup {"create"} ELSE @,
                              !.faults = IF dirFails THEN @ + 1 ELSE @]
       IN reg' = IF dirFails \/ reg.email \in reg.emails \/ reg.username \in reg.usernames
                 THEN [req EXCEPT !.err = ErrCreateUser]
                 ELSE [req EXCEPT !.emails = @ \cup {reg.email},
                                  !.usernames = @ \cup {reg.username}]
    /\ RegFrame

NextRegister ==
    \/ \E e \in RegEmails, u \in RegNames, pw \in RegPasswords : RegStart(e, u, pw)
    \/ \E f \in BOOLEAN : RegExistsByEmail(f)
    \/ \E f \in BOOLEAN : RegExistsByUsername(f)
    \/ \E f \in BOOLEAN : RegCreate(f)

InitRegister ==
    InitService /\ gate = Unused /\ reg = RegIdle /\ pwd = Unused /\ callback = Unused
    /\ subreddit = Unused

SpecRegister == InitRegister /\ [][NextRegister]_vars


\* ------------------------------------------- ValidatePasswordFormat alone
\* ValidatePasswordFormat applied to every password of PasswordMinLen - 1 to
\* MaxPwdLen characters made of upper-case letters, lower-case letters,
\* digits and line breaks.
PwdClasses == {"U", "L", "D", "N"}
PwdInputs == UNION {[1..n -> PwdClasses] : n \in (PasswordMinLen - 1)..MaxPwdLen}

PwdCheck(cs) ==
    /\ pwd.phase = "start"
    /\ pwd' = [phase |-> "checked", cs |-> cs, err |-> PasswordFormatError(cs)]
    /\ UNCHANGED <<now, users, issued, denylist, spent, proc, calls, faults, codec, resetVars,
                   guard, request, origin, gate, reg, callback, logout, subreddit>>

NextPassword == pwd.phase = "start" /\ \E cs \in PwdInputs : PwdCheck(cs)

InitPassword ==
    InitService /\ gate = Unused /\ reg = Unused /\ pwd = PwdIdle /\ callback = Unused
    /\ subreddit = Unused

SpecPassword == InitPassword /\ [][NextPassword]_vars


\* --------------------------------------------- the two stores together
\* Login, refresh, logout and password reset side by side, with both kinds
\* of Redis keys in one store, from the state right after a login of the
\* first account.  The writes to the store may fail: the Set of a denylist
\* key and the Del of a reset key.
InitStore ==
    /\ now = 0
    /\ users = [id \in UserIds |->
                  [present |-> TRUE,
                   password |-> IF id = "u1" THEN HashPassword(GoodPassword) ELSE NoPassword]]
    /\ LET tp == generateTokenPair(JWTSecret, "u1", 0) IN
       /\ issued = {tp.access, tp.refresh}
       /\ origin = [a \in UserIds |-> IF a = "u1" THEN {tp.access, tp.refresh} ELSE {}]
    /\ denylist = [k \in {} |-> [at |-> 0, ttl |-> 0]]
    /\ spent = {}
    /\ proc = [p \in Procs |-> Idle]
    /\ calls = 0
    /\ faults = 0
    /\ codec = CodecIdle
    /\ InitReset
    /\ guard = GuardIdle
    /\ request = RequestIdle
    /\ logout = NoLogout
    /\ gate = Unused
    /\ reg = Unused
    /\ pwd = Unused
    /\ callback = Unused
    /\ subreddit = Unused

NextStore ==
    \/ \E p \in Procs : Login(p, EmailOf("u1"), GoodPassword, FALSE)
    \/ \E p \in Procs, t \in issued : RefreshStart(p, t)
    \/ \E p \in Procs : RefreshCheckDenylist(p, FALSE)
    \/ \E p \in Procs : RefreshGetUser(p, FALSE)
    \/ \E p \in Procs : BlacklistDecrypt(p)
    \/ \E p \in Procs, f \in BOOLEAN : BlacklistSet(p, f)
    \/ \E p \in Procs : RefreshGenerate(p)
    \/ \E p \in Procs, a, t \in issued : LogoutStart(p, a, t)
    \/ Tick
    \/ RequestPasswordReset(EmailOf("u1"), FALSE, FALSE)
    \/ \E p \in Procs, tk \in 1..Len(links) : ResetStart(p, tk, NewPassword)
    \/ \E p \in Procs : ResetGet(p, FALSE)
    \/ \E p \in Procs : ResetGetByEmail(p, FALSE)
    \/ \E p \in Procs : ResetUpdate(p, FALSE)
    \/ \E p \in Procs, f \in BOOLEAN : ResetDel(p, f)
    \/ StoreTick

SpecStore == InitStore /\ [][NextStore]_vars


\* --------------------------------------------------- chains of refreshes
\* Login and refresh with two accounts that have a password, so that chains
\* of different accounts run side by side; store and directory calls may
\* fail.
InitChain ==
    /\ now = 0
    /\ users = [id \in UserIds |->
                  [present |-> TRUE,
                   password |-> HashPassword(IF id = "u1" THEN GoodPassword ELSE NewPassword)]]
    /\ issued = {}
    /\ denylist = [k \in {} |-> [at |-> 0, ttl |-> 0]]
    /\ spent = {}
    /\ proc = [p \in Procs |-> Idle]
    /\ calls = 0
    /\ faults = 0
    /\ codec = CodecIdle
    /\ InitReset
    /\ guard = GuardIdle
    /\ InitHarness

NextChain ==
    \/ \E p \in Procs : Login(p, EmailOf("u1"), GoodPassword, FALSE)
    \/ \E p \in Procs : Login(p, EmailOf("u2"), NewPassword, FALSE)
    \/ \E p \in Procs, t \in Presentable : RefreshStart(p, t)
    \/ \E p \in Procs, f \in BOOLEAN : RefreshCheckDenylist(p, f)
    \/ \E p \in Procs, f \in BOOLEAN : RefreshGetUser(p, f)
    \/ \E p \in Procs : BlacklistDecrypt(p)
    \/ \E p \in Procs, f \in BOOLEAN : BlacklistSet(p, f)
    \/ \E p \in Procs : RefreshGenerate(p)
    \/ Tick

SpecChain == InitChain /\ [][NextChain]_vars


\* ------------------------------------------------ JWTAuthMiddleware alone
\* JWTAuthMiddleware applied to requests drawn from bounded sets: any of the
\* tokens as the access cookie or none, any of them behind an Authorization
\* scheme or no header, at any time.
GateTokens ==
    {EmptyString, Malformed, Jwt("none", JWTSecret, "u1", 2, TokenTypeAccess)} \cup
    {Jwt("HS256", k, sb, e, ty) :
        k \in Secrets, sb \in {"u1", "u2", ""}, e \in {1, 2},
        ty \in {TokenTypeAccess, TokenTypeRefresh}}
GateHeaders == {NoHeader} \cup {Header(sc, tk) : sc \in {"Bearer ", "Basic "}, tk \in GateTokens}

GateElapse ==
    /\ gate.phase = "start"
    /\ gate.t < MaxTime
    /\ gate' = [gate EXCEPT !.t = @ + 1]
    /\ UNCHANGED <<now, users, issued, denylist, spent, proc, calls, faults, codec, resetVars,
                   guard, request, origin, reg, pwd, callback, logout, subreddit>>

\* middleware.go:14-52  one request passes the middleware.
GateRequest(cookie, authHeader) ==
    /\ gate.phase = "start"
    /\ gate' = [gate EXCEPT !.phase = "answered", !.cookie = cookie, !.header = authHeader,
                            !.out = JWTAuthMiddleware(cookie, authHeader, gate.t)]
    /\ UNCHANGED <<now, users, issued, denylist, spent, proc, calls, faults, codec, resetVars,
                   guard, request, origin, reg, pwd, callback, logout, subreddit>>

NextGate ==
    \/ GateElapse
    \/ \E ck \in GateTokens \cup {NoCookie}, h \in GateHeaders : GateRequest(ck, h)

InitGate ==
    InitService /\ gate = GateIdle /\ reg = Unused /\ pwd = Unused /\ callback = Unused
    /\ subreddit = Unused

SpecGate == InitGate /\ [][NextGate]_vars


\* ------------------------------------------------ the Google callback
\* The callback handler applied to requests drawn from bounded sets: the
\* query carries a code or none and a state that was generated under the
\* configured or under another secret, the same with one character
\* replaced, a string without a dot, or no state; the exchange of the code,
\* the fetch of the profile and the directory may fail.
ErrInvalidState == "invalid state"
ErrCodeExchange == "code exchange failed"
ErrFetchUserInfo == "failed to fetch user info"
ErrFindOrCreate == "failed to create user"
MissingCodeOrState == "Missing code or state"
OAuthFailed == "OAuth authentication failed"

CallbackCodes == {"", "4/0Ab"}
CallbackStates ==
    LET made == {GenerateState(sc, nc, FALSE).state : sc \in Secrets, nc \in Nonces} IN
    made \cup {[st EXCEPT ![NonceLen + 3] = "="] : st \in made}
         \cup Nonces \cup {<<>>}

\* service.go:120-150  The pair and the error the service returns; a nil
\* *utils.TokenPair is NoPair.  who is the account FindOrCreateByGoogle
\* finds or creates for the profile.
HandleGoogleCallbackResult(code, state, who, exchangeFails, profileFails, userFails, t) ==
    IF ValidateState(state, JWTSecret).err # Nil THEN [pair |-> NoPair, err |-> ErrInvalidState]
    ELSE IF exchangeFails THEN [pair |-> NoPair, err |-> ErrCodeExchange]
    ELSE IF profileFails THEN [pair |-> NoPair, err |-> ErrFetchUserInfo]
    ELSE IF userFails THEN [pair |-> NoPair, err |-> ErrFindOrCreate]
    ELSE [pair |-> generateTokenPair(JWTSecret, who, t), err |-> Nil]

\* part_014:214-234  Reading tokenPair.AccessToken of a nil pair panics
\* before the first cookie is set.
setTokenCookies(tokenPair) ==
    IF tokenPair = NoPair THEN [panic |-> TRUE, cookies |-> {}]
    ELSE [panic |-> FALSE,
          cookies |-> {[name |-> "access", value |-> tokenPair.access,
                        maxAge |-> AccessLifetime],
                       [name |-> "refresh", value |-> tokenPair.refresh,
                        maxAge |-> RefreshLifetime]}]

CallbackFrame ==
    UNCHANGED <<now, users, denylist, spent, proc, calls, faults, codec, resetVars,
                guard, request, gate, reg, pwd, logout, subreddit>>

\* part_014:188-212  The handler, from the query to the response.  The
\* branch for a service error writes the 401 response and does not return:
\* setTokenCookies follows with the pair the service returned, and the
\* redirect follows unless that call panicked (router.go:42: gin.Default()
\* recovers the panic; the status already written stays).
CallbackHandle(code, state, who, exchangeFails, profileFails, userFails) ==
    /\ callback.phase = "start"
    /\ IF code = "" \/ state = <<>>
       THEN /\ callback' = [callback EXCEPT !.phase = "done", !.code = code, !.state = state,
                                            !.status = 400,
                                            !.error = MissingCodeOrState]
            /\ UNCHANGED <<issued, origin>>
       ELSE LET r == HandleGoogleCallbackResult(code, state, who, exchangeFails,
                                                profileFails, userFails, callback.t)
                ck == setTokenCookies(r.pair)
            IN /\ callback' =
                     [callback EXCEPT
                        !.phase = "done", !.code = code, !.state = state,
                        !.err = r.err, !.pair = r.pair,
                        !.status = IF r.err # Nil THEN 401 ELSE 307,
                        !.error = IF r.err # Nil THEN OAuthFailed ELSE "",
                        !.cookies = ck.cookies,
                        !.panic = ck.panic,
                        !.redirect = ~ck.panic]
               /\ issued' = IF r.err = Nil THEN issued \cup {r.pair.access, r.pair.refresh}
                            ELSE issued
               /\ origin' = IF r.err = Nil THEN Descend(r.pair, {who}) ELSE origin
    /\ CallbackFrame

\* Time passes before the request arrives.
CallbackElapse ==
    /\ callback.phase = "start"
    /\ callback.t < MaxTime
    /\ callback' = [callback EXCEPT !.t = @ + 1]
    /\ UNCHANGED <<issued, origin>>
    /\ CallbackFrame

NextCallback ==
    \/ \E code \in CallbackCodes, state \in CallbackStates, who \in UserIds,
          xf \in BOOLEAN, pf \in BOOLEAN, uf \in BOOLEAN :
              CallbackHandle(code, state, who, xf, pf, uf)
    \/ CallbackElapse

InitCallback ==
    InitService /\ gate = Unused /\ reg = Unused /\ pwd = Unused /\ callback = CallbackIdle
    /\ subreddit = Unused

SpecCallback == InitCallback /\ [][NextCallback]_vars


\* ------------------------------------------ several reset tokens at once
\* ResetPassword calls while two reset tokens are outstanding and the
\* denylist holds a key: the state after a login and logout of the first
\* account and two reset requests, for the same email or for the emails of
\* both accounts, each of which has a password.  The update of the password
\* and the Del of the key may fail, and the first account may be removed.
InitOutstanding ==
    /\ now = 0
    /\ users = [id \in UserIds |->
                  [present |-> TRUE,
                   password |-> IF id = "u1" THEN HashPassword(GoodPassword)
                                ELSE HashPassword(NewPassword)]]
    /\ LET tp == generateTokenPair(JWTSecret, "u1", 0) IN
       /\ issued = {tp.access, tp.refresh}
       /\ origin = [a \in UserIds |-> IF a = "u1" THEN {tp.access, tp.refresh} ELSE {}]
       /\ denylist = [k \in {tp.refresh} |->
                        [at |-> 0, ttl |-> BlacklistTTL(tp.refresh.exp, 0)]]
       /\ logout = [done |-> {tp.refresh}, later |-> {}]
    /\ spent = {}
    /\ proc = [p \in Procs |-> Idle]
    /\ calls = 0
    /\ faults = 0
    /\ codec = CodecIdle
    /\ \E e \in ResetEmails :
          /\ links = [k \in 1..2 |->
                        [email |-> IF k = 1 THEN EmailOf("u1") ELSE e, age |-> 0,
                         stored |-> TRUE, used |-> FALSE, delfail |-> FALSE]]
          /\ resets = [k \in 1..2 |->
                         [email |-> IF k = 1 THEN EmailOf("u1") ELSE e,
                          ttl |-> PasswordResetTokenLifetime]]
          /\ request = [email |-> e, err |-> Nil, mailed |-> TRUE, lookups |-> 0]
    /\ rcall = [p \in Procs |-> ResetIdle]
    /\ guard = GuardIdle
    /\ gate = Unused
    /\ reg = Unused
    /\ pwd = Unused
    /\ callback = Unused
    /\ subreddit = Unused

NextOutstanding ==
    \/ \E p \in Procs, tk \in 1..Len(links) : ResetStart(p, tk, WrongPassword)
    \/ \E p \in Procs : ResetGet(p, FALSE)
    \/ \E p \in Procs : ResetGetByEmail(p, FALSE)
    \/ \E p \in Procs, f \in BOOLEAN : ResetUpdate(p, f)
    \/ \E p \in Procs, f \in BOOLEAN : ResetDel(p, f)
    \/ StoreTick
    \/ \E id \in Deletable : DeleteUser(id)

SpecOutstanding == InitOutstanding /\ [][NextOutstanding]_vars


\* ---------------------------------------------- subreddit membership
\* The tables subreddits and subreddit_members behind subreddit.Service.
\* A subreddit is named by its unique name (part_009:13); its ID is the fresh
\* uuid.New() of the create that made it.  Each call runs its writes in one
\* transaction (part_010:22-29), so a call is one step: either all of its
\* writes or none.
Subreddits == {"s1", "s2"}

\* part_008:170-173
ErrCreatorCannotLeave == "creator cannot leave subreddit, delete it instead"
\* gorm.ErrRecordNotFound, the error of First in GetByID (part_010:60-63).
ErrRecordNotFound == "record not found"
\* The ValidationErrors of ValidateCreateSubredditInput (part_008:188-192).
ErrSubredditValidation == "validation errors"
\* Any error of a statement inside WithTx: the transaction is rolled back.
ErrTransaction == "transaction failed"

\* part_010:101-103  INSERT INTO subreddits: the row as the caller built it.
Create(db, id, creatorID, memberCount) ==
    [db EXCEPT !.subreddits =
        @ @@ (id :> [CreatorID |-> creatorID, MemberCount |-> memberCount])]

\* part_010:151-175  INSERT ... ON CONFLICT DO NOTHING; member_count + 1 only
\* when a row was inserted.
AddMember(db, subredditID, userID) ==
    IF <<subredditID, userID>> \in db.subreddit_members
    THEN db
    ELSE [db EXCEPT !.subreddit_members = @ \cup {<<subredditID, userID>>},
                    !.subreddits[subredditID].MemberCount = @ + 1]

\* part_010:177-196  DELETE the row; member_count - 1 only when a row was
\* deleted.
RemoveMember(db, subredditID, userID) ==
    IF <<subredditID, userID>> \notin db.subreddit_members
    THEN db
    ELSE [db EXCEPT !.subreddit_members = @ \ {<<subredditID, userID>>},
                    !.subreddits[subredditID].MemberCount = @ - 1]

SubredditFrame ==
    UNCHANGED <<now, users, issued, denylist, spent, proc, calls, faults, codec,
                resetVars, guard, request, origin, gate, reg, pwd, callback, logout>>

SubredditStep(db, op, subredditID, userID, err) ==
    /\ subreddit' = [db EXCEPT !.call = [op |-> op, subredditID |-> subredditID,
                                         userID |-> userID, err |-> err]]
    /\ SubredditFrame

\* part_008:183-225  valid: the four format checks pass; a name already taken
\* fails ValidateNameExists.  The row is built with MemberCount 1, stored, and
\* the creator is added as a member in the same transaction.
CreateSubreddit(creatorID, name, valid, txFails) ==
    IF ~valid \/ name \in DOMAIN subreddit.subreddits
    THEN SubredditStep(subreddit, "create", name, creatorID, ErrSubredditValidation)
    ELSE IF txFails
    THEN SubredditStep(subreddit, "create", name, creatorID, ErrTransaction)
    ELSE SubredditStep(AddMember(Create(subreddit, name, creatorID, 1), name, creatorID),
                       "create", name, creatorID, Nil)

\* part_008:300-312
JoinSubreddit(subredditID, userID, txFails) ==
    IF subredditID \notin DOMAIN subreddit.subreddits
    THEN SubredditStep(subreddit, "join", subredditID, userID, ErrRecordNotFound)
    ELSE IF txFails
    THEN SubredditStep(subreddit, "join", subredditID, userID, ErrTransaction)
    ELSE SubredditStep(AddMember(subreddit, subredditID, userID),
                       "join", subredditID, userID, Nil)

\* part_008:314-329
LeaveSubreddit(subredditID, userID, txFails) ==
    IF subredditID \notin DOMAIN subreddit.subreddits
    THEN SubredditStep(subreddit, "leave", subredditID, userID, ErrRecordNotFound)
    ELSE IF subreddit.subreddits[subredditID].CreatorID = userID
    THEN SubredditStep(subreddit, "leave", subredditID, userID, ErrCreatorCannotLeave)
    ELSE IF txFails
    THEN SubredditStep(subreddit, "leave", subredditID, userID, ErrTransaction)
    ELSE SubredditStep(RemoveMember(subreddit, subredditID, userID),
                       "leave", subredditID, userID, Nil)

NextSubreddit ==
    \/ \E u \in UserIds, s \in Subreddits, valid \in BOOLEAN, f \in BOOLEAN :
          CreateSubreddit(u, s, valid, f)
    \/ \E u \in UserIds, s \in Subreddits, f \in BOOLEAN : JoinSubreddit(s, u, f)
    \/ \E u \in UserIds, s \in Subreddits, f \in BOOLEAN : LeaveSubreddit(s, u, f)

InitSubreddit ==
    InitService /\ gate = Unused /\ reg = Unused /\ pwd = Unused /\ callback = Unused
    /\ subreddit = [subreddits |-> <<>>, subreddit_members |-> {},
                    call |-> [op |-> "none", subredditID |-> Nil, userID |-> Nil,
                              err |-> Nil]]

SpecSubreddit == InitSubreddit /\ [][NextSubreddit]_vars

\* The membership rows recorded for a subreddit.
MemberRows(subredditID) ==
    {u \in UserIds : <<subredditID, u>> \in subreddit.subreddit_members}

\* ================================================================ claims
Refreshed(p) == proc[p].op = "refresh" /\ proc[p].pc = "done"
ValidlySigned(token, secret) ==
    token.form = "jwt" /\ token.alg = "HS256" /\ token.key = secret
Unexpired(token, t) == token.exp = NoExp \/ t < UnixTime(token.exp)

\* C1 (as claimed): a refreshTokens(T) call that starts after a refreshTokens(T)
\* has returned a pair fails with ErrInvalidRefreshToken and returns no pair,
\* before and after T's natural expiry.
C1_SingleUse ==
    \A p \in Procs :
        Refreshed(p) /\ proc[p].after =>
            proc[p].err = ErrInvalidRefreshToken /\ proc[p].pair = NoPair

\* C2 (as claimed): among the refreshTokens calls that present the same token,
\* at most one returns a pair; stated for the runs in which no store or
\* directory call fails, where two winners can only come from interleaving.
C2_OneWinner ==
    faults = 0 =>
        \A p, q \in Procs :
            (/\ p # q
             /\ Refreshed(p) /\ Refreshed(q)
             /\ proc[p].tok = proc[q].tok
             /\ proc[p].err = Nil) => proc[q].err = ErrInvalidRefreshToken

\* C3 (as claimed): when refreshTokens(T) returns a pair, the pair's refresh
\* token is a different string from T and is not on the denylist, whatever
\* the time between the issuance of T and the refresh.
C3_FreshSuccessor ==
    [][\A p \in Procs :
         (proc[p].pc = "r258" /\ proc'[p].pc = "done") =>
             /\ proc'[p].pair.refresh # proc[p].tok
             /\ proc'[p].pair.refresh \notin Live(now)]_vars

IssuedAndVerifiedAtOnce ==
    /\ codec.phase = "verified"
    /\ codec.by = "issue"
    /\ codec.vsecret = codec.secret
    /\ codec.vkind = codec.kind
    /\ codec.t = codec.at

\* C4 (as claimed): for every subject, kind, lifetime > 0 and secret,
\* DecryptJWT(GenerateJWT(secret, K, L, S), secret, K) right after issuance
\* returns S and no error.
C4_RoundTripAnyInput ==
    IssuedAndVerifiedAtOnce => codec.out.err = Nil /\ codec.out.sub = codec.sub

\* C4 (amended): the round trip returns S and no error for every non-empty
\* subject S, kind K, secret and lifetime L of at least one second.
C4_RoundTrip ==
    (IssuedAndVerifiedAtOnce /\ codec.sub # "" /\ codec.life >= TicksPerSec) =>
        codec.out.err = Nil /\ codec.out.sub = codec.sub

C4_Witness ==
    /\ IssuedAndVerifiedAtOnce
    /\ codec.sub # ""
    /\ codec.life = TicksPerSec
    /\ codec.at % TicksPerSec # 0
    /\ codec.out.err = Nil

\* C5: a token whose signature is valid under the secret and whose expiry has
\* passed is reported as ErrExpiredToken, whatever its kind and subject.
C5_ExpiryPrecedence ==
    (/\ codec.phase = "verified"
     /\ ValidlySigned(codec.tok, codec.vsecret)
     /\ ~Unexpired(codec.tok, codec.t)) => codec.out.err = ErrExpiredToken

C5_Witness ==
    /\ codec.phase = "verified"
    /\ ValidlySigned(codec.tok, codec.vsecret)
    /\ ~Unexpired(codec.tok, codec.t)
    /\ codec.tok.typ # codec.vkind
    /\ codec.tok.sub = ""
    /\ codec.out.err = ErrExpiredToken

\* C6: a token issued as access is never accepted where a refresh token is
\* expected and the other way round: no access token gets past the decoding
\* of refreshTokens, and no refresh token passes JWTAuthMiddleware, as
\* cookie or as bearer.
C6_KindIsolation ==
    /\ \A tk \in issued : \A k \in {TokenTypeAccess, TokenTypeRefresh} :
          k # tk.typ => DecryptJWT(tk, JWTSecret, k, now).err # Nil
    /\ \A p \in Procs :
          (proc[p].op = "refresh" /\ proc[p].tok.typ # TokenTypeRefresh) =>
              proc[p].pc = "done" /\ proc[p].err = ErrInvalidRefreshToken
    /\ \A tk \in issued :
          tk.typ = TokenTypeRefresh =>
              /\ ~JWTAuthMiddleware(tk, NoHeader, now).next
              /\ ~JWTAuthMiddleware(NoCookie, Header("Bearer ", tk), now).next

C6_Witness ==
    \E p \in Procs :
        /\ Refreshed(p)
        /\ proc[p].tok \in issued
        /\ proc[p].tok.typ = TokenTypeAccess
        /\ Unexpired(proc[p].tok, now)
        /\ proc[p].err = ErrInvalidRefreshToken
        /\ \E tk \in issued : tk.typ = TokenTypeRefresh /\ Unexpired(tk, now)

\* C7: DecryptJWT answers ErrInvalidToken for the empty string and for every
\* token whose signature does not verify; ErrInvalidTokenType for a validly
\* signed unexpired token whose type claim is absent or not the expected one,
\* whatever its subject; ErrInvalidClaims for a validly signed unexpired token
\* of the expected kind whose sub claim is missing, not a string or empty.
C7_Classification ==
    codec.phase = "verified" =>
        LET tk == codec.tok
            good == ValidlySigned(tk, codec.vsecret) /\ Unexpired(tk, codec.t)
        IN /\ ~ValidlySigned(tk, codec.vsecret) => codec.out.err = ErrInvalidToken
           /\ (good /\ tk.typ # codec.vkind) => codec.out.err = ErrInvalidTokenType
           /\ (good /\ tk.typ = codec.vkind /\ tk.sub \in {MissingClaim, NotAString, ""})
                 => codec.out.err = ErrInvalidClaims

C7_Witness ==
    /\ codec.phase = "verified"
    /\ ValidlySigned(codec.tok, codec.vsecret)
    /\ Unexpired(codec.tok, codec.t)
    /\ codec.tok.typ = MissingClaim
    /\ codec.tok.sub = NotAString
    /\ codec.out.err = ErrInvalidTokenType

\* C8 (as claimed): a refreshTokens call that fails although no store or
\* directory call failed, in particular on a token that expires at any
\* moment of the call, returns exactly ErrInvalidRefreshToken (answered 401).
C8_Collapsed ==
    \A p \in Procs :
        (Refreshed(p) /\ proc[p].err # Nil /\ proc[p].fault = "none") =>
            proc[p].err = ErrInvalidRefreshToken /\ RefreshStatus(proc[p].err) = 401

C10_FailuresSurface ==
    \A p \in Procs :
        (proc[p].op \in {"refresh", "login"} /\ proc[p].fault # "none") =>
            /\ proc[p].pc = "done"
            /\ proc[p].err \notin {Nil, ErrInvalidRefreshToken, ErrInvalidCredentials}

ResetDone(p) == rcall[p].pc = "done"
ValidPasswords == {GoodPassword, WrongPassword, NewPassword}
InvalidPasswords == {"", WeakPassword, ShortPassword, PaddedPassword}
WindowOpen(tk) == links[tk].age < PasswordResetTokenLifetime

C12_UniformMiss ==
    /\ \A k \in DOMAIN resets :
          /\ resets[k].ttl > 0
          /\ resets[k].ttl + links[k].age = PasswordResetTokenLifetime
          /\ resets[k].email = links[k].email
    /\ \A p \in Procs :
          (ResetDone(p) /\ rcall[p].password \in ValidPasswords /\ rcall[p].fault = "none") =>
              LET tk == rcall[p].tok IN
              (\/ tk = UnknownToken
               \/ ~links[tk].stored
               \/ rcall[p].late
               \/ rcall[p].orphan) =>
                  rcall[p].err = ErrInvalidResetToken /\ ~rcall[p].changed

C12_Witness ==
    \E p \in Procs :
        /\ ResetDone(p)
        /\ rcall[p].password \in ValidPasswords
        /\ rcall[p].orphan /\ rcall[p].email = EmailOf("u1")
        /\ rcall[p].err = ErrInvalidResetToken
        /\ rcall[p].tok \in DOMAIN resets
        /\ resets[rcall[p].tok].ttl = 1

\* C13: a ResetPassword call whose password fails the format checks returns
\* the validation errors at once: it makes no store or directory call and
\* changes no password, whatever its token is.
C13_ValidationFirst ==
    \A p \in Procs :
        (rcall[p].pc # "idle" /\ rcall[p].password \in InvalidPasswords) =>
            /\ rcall[p].pc = "done"
            /\ rcall[p].err = ErrValidation
            /\ rcall[p].io = 0
            /\ ~rcall[p].changed

C13_Witness ==
    \E p \in Procs :
        /\ ResetDone(p)
        /\ rcall[p].password \in InvalidPasswords
        /\ rcall[p].tok \in DOMAIN resets
        /\ links[rcall[p].tok].email = EmailOf("u1")
        /\ users["u1"].present
        /\ rcall[p].err = ErrValidation

\* C14: the account provisioned without a password never gets one, and a
\* ResetPassword call that found its token stored for that account's email
\* returns ErrOAuthAccountNoPassword (when its directory lookup did not
\* fail).
C14_NoPasswordStays ==
    /\ users["u2"].password = NoPassword
    /\ \A p \in Procs :
          (/\ ResetDone(p)
           /\ rcall[p].email = EmailOf("u2")
           /\ rcall[p].fault = "none") => rcall[p].err = ErrOAuthAccountNoPassword

C14_Witness ==
    \E p \in Procs :
        /\ ResetDone(p)
        /\ rcall[p].email = EmailOf("u2")
        /\ rcall[p].password \in ValidPasswords
        /\ rcall[p].err = ErrOAuthAccountNoPassword
        /\ users["u2"].password = NoPassword

\* C15: a ResetPassword call whose Del failed after the password update
\* returns success; and no ResetPassword call ever finds a token in the store
\* at or after the end of the 30-minute window that began at the request, so
\* a token left behind by a failed Del is usable within that window only.
C15_DelFailureSwallowed ==
    /\ [](\A p \in Procs :
            (ResetDone(p) /\ rcall[p].fault = "del") =>
                rcall[p].err = Nil /\ rcall[p].io = 4)
    /\ [][\A p \in Procs :
            (rcall[p].pc = "g174" /\ rcall'[p].pc = "u181") =>
                WindowOpen(rcall[p].tok)]_vars

C15_Witness ==
    \E q \in Procs :
        /\ ResetDone(q)
        /\ rcall[q].after /\ rcall[q].err = Nil /\ rcall[q].changed
        /\ links[rcall[q].tok].delfail
        /\ links[rcall[q].tok].age > 0

\* C16: Login with the email of the account that has no password hash never
\* returns a token pair, whatever the password; for a password that passes
\* the input validation, while the account exists and the directory answers,
\* it returns
\* ErrOAuthAccountNoPassword, which is not ErrInvalidCredentials and which
\* the handler answers differently.
C16_NoPasswordLogin ==
    [][\A p \in Procs, pw \in LoginPasswords, f \in BOOLEAN :
         Login(p, EmailOf("u2"), pw, f) =>
             /\ proc'[p].pair = NoPair
             /\ issued' = issued
             /\ (~f /\ users["u2"].present /\ ValidateLoginInput(EmailOf("u2"), pw)) =>
                   proc'[p].err = ErrOAuthAccountNoPassword
             /\ ErrOAuthAccountNoPassword # ErrInvalidCredentials
             /\ LoginResponse(ErrOAuthAccountNoPassword) # LoginResponse(ErrInvalidCredentials)
      ]_vars

C16_Witness ==
    \E p \in Procs :
        /\ proc[p].op = "login" /\ proc[p].pc = "done"
        /\ proc[p].err = ErrOAuthAccountNoPassword
        /\ proc[p].pair = NoPair
        /\ users["u2"].present
        /\ now > 0

\* C17: Login returns a pair only for an email that resolves to an account
\* with a password hash the supplied password verifies against; for input
\* that passes the input validation, an unknown email and a known email with
\* a wrong password both give ErrInvalidCredentials.
C17_GenericFailure ==
    [][\A p \in Procs, e \in LoginEmails, pw \in LoginPasswords, f \in BOOLEAN :
         Login(p, e, pw, f) =>
             LET acct == {id \in UserIds : users[id].present /\ EmailOf(id) = e} IN
             /\ (proc'[p].err = Nil) = (proc'[p].pair # NoPair)
             /\ proc'[p].pair # NoPair =>
                   \E id \in acct :
                       /\ ~f
                       /\ users[id].password # NoPassword
                       /\ users[id].password = HashPassword(pw)
                       /\ proc'[p].pair.access.sub = id
             /\ (/\ ValidateLoginInput(e, pw)
                 /\ \/ acct = {}
                    \/ \E id \in acct : /\ users[id].password # NoPassword
                                        /\ users[id].password # HashPassword(pw)) =>
                   proc'[p].err = ErrInvalidCredentials
      ]_vars

C17_Witness ==
    \E p \in Procs :
        /\ proc[p].op = "login" /\ proc[p].pc = "done"
        /\ proc[p].err = ErrInvalidCredentials
        /\ proc[p].fault = "none"
        /\ users["u1"].present
        /\ \E tk \in issued : tk.sub = "u1" /\ Unexpired(tk, now)

\* C18: a generated state validates under the secret it was generated with;
\* with any one of its characters replaced it does not; and it does not
\* validate under another secret.
C18_TamperEvident ==
    guard.phase = "validated" =>
        /\ (guard.pos = 0 /\ guard.vsecret = guard.secret) => guard.ok
        /\ (guard.pos # 0 /\ guard.vsecret = guard.secret) => ~guard.ok
        /\ (guard.pos = 0 /\ guard.vsecret # guard.secret) => ~guard.ok

C18_Witness ==
    /\ guard.phase = "validated"
    /\ guard.pos # 0
    /\ guard.pos <= NonceLen
    /\ guard.state[guard.pos] = Dot
    /\ guard.vsecret = guard.secret
    /\ ~guard.ok

C21_Gatekeeper ==
    gate.phase = "answered" =>
        LET present == gate.cookie # NoCookie
            carried == present \/ gate.header.scheme = "Bearer "
            tok == IF present THEN gate.cookie ELSE gate.header.token
            ok == carried /\ DecryptJWT(tok, JWTSecret, TokenTypeAccess, gate.t).err = Nil
        IN /\ gate.out.next = ok
           /\ ok => /\ gate.out.user_id = tok.sub
                    /\ ValidlySigned(tok, JWTSecret)
                    /\ Unexpired(tok, gate.t)
                    /\ tok.typ = TokenTypeAccess
           /\ ~ok => gate.out.status = 401 /\ gate.out.user_id = ""

C21_Witness ==
    /\ gate.phase = "answered"
    /\ gate.cookie # NoCookie
    /\ DecryptJWT(gate.cookie, JWTSecret, TokenTypeAccess, gate.t).err = ErrExpiredToken
    /\ gate.header.scheme = "Bearer "
    /\ DecryptJWT(gate.header.token, JWTSecret, TokenTypeAccess, gate.t).err = Nil
    /\ gate.out.status = 401
    /\ ~gate.out.next

\* C22: RequestPasswordReset does the same for the email of an account, of
\* a removed account and of no account: it makes no directory call and
\* leaves the directory alone, stores a token that was not in the store
\* before under the email with the TTL PasswordResetTokenLifetime, attempts the
\* mail, and returns a result that depends on the failures of the store and
\* the mailer only; and where it is accepted for one email it is accepted
\* for every email.
C22_NoEnumeration ==
    [][\A e \in RequestEmails, sf, mf \in BOOLEAN :
         RequestPasswordReset(e, sf, mf) =>
             LET tk == Len(links') IN
             /\ users' = users
             /\ request'.lookups = 0
             /\ request'.mailed = ~sf
             /\ request'.err = (IF sf THEN ErrResetStore ELSE IF mf THEN ErrResetMail ELSE Nil)
             /\ ~sf => /\ tk \notin DOMAIN resets
                       /\ resets'[tk] = [email |-> e, ttl |-> PasswordResetTokenLifetime]
             /\ \A e2 \in RequestEmails : ENABLED RequestPasswordReset(e2, sf, mf)
      ]_vars

C22_Witness ==
    /\ request.email = UnknownEmail
    /\ request.err = Nil
    /\ request.mailed
    /\ \E k \in DOMAIN resets : resets[k].email = UnknownEmail /\ resets[k].ttl = 1
    /\ \E id \in UserIds : ~users[id].present

\* The fields of a Register call whose format check fails.
FailingFields(r) ==
    {f \in {"email", "username", "password"} :
        \/ f = "email" /\ ValidateEmailFormat(r.email) # Nil
        \/ f = "username" /\ ValidateUsernameFormat(r.username) # Nil
        \/ f = "password" /\ PasswordFormatError(Chars(r.password)) # Nil}
Validated(r) == r.pc \in {"c79", "done"}

\* C23 (as claimed): the collection ValidateRegistrationInput returns has one
\* entry for each field whose format check fails, whichever and however many
\* they are, and it is empty exactly when all three format checks pass and
\* neither the email nor the username is taken.
C23_AllFailuresReported ==
    Validated(reg) =>
        /\ \A f \in FailingFields(reg) :
              Cardinality({i \in 1..Len(reg.errs) : reg.errs[i].field = f}) = 1
        /\ FailingFields(reg) # {} => Len(reg.errs) = Cardinality(FailingFields(reg))
        /\ (reg.errs = <<>>) =
              (FailingFields(reg) = {} /\ ~reg.takenEmail /\ ~reg.takenName)

\* C24: a Register call with a failing format check ends with the
\* validation error without a directory call, and a directory call or a
\* change of the directory is made only by a call whose three format checks
\* passed.
C24_CheapFirst ==
    /\ [](reg.pc # "idle" /\ FailingFields(reg) # {} =>
            reg.pc = "done" /\ reg.err = ErrValidation /\ reg.lookups = 0)
    /\ [][(\/ reg'.lookups > reg.lookups
            \/ reg'.emails # reg.emails
            \/ reg'.usernames # reg.usernames) => FailingFields(reg) = {}]_vars

C24_Witness ==
    /\ reg.pc = "done"
    /\ Cardinality(FailingFields(reg)) = 1
    /\ reg.takenEmail
    /\ reg.email = BobEmail
    /\ reg.lookups = 0
    /\ reg.err = ErrValidation

\* A checked password that is not empty, has no white space at its ends and
\* has a length within the bounds; the classes of its characters.
InBounds(p) ==
    /\ p.phase = "checked"
    /\ p.cs # <<>>
    /\ p.cs[1] \notin {"S", "N"} /\ p.cs[Len(p.cs)] \notin {"S", "N"}
    /\ Len(p.cs) >= 8 /\ Len(p.cs) <= 30
ClassesOf(cs) == {cs[i] : i \in 1..Len(cs)} \cap {"U", "L", "D"}

\* C25 (as claimed): a password that is not empty, has no leading or trailing
\* white space and has 8 to 30 characters is accepted exactly when it has an
\* upper-case letter, a lower-case letter and a digit, wherever they stand;
\* otherwise the error is ErrPasswordWeak.
C25_ClassPresence ==
    InBounds(pwd) =>
        pwd.err = (IF ClassesOf(pwd.cs) = {"U", "L", "D"} THEN Nil ELSE ErrPasswordWeak)

\* C26 (as claimed): a password within the length bounds passes the strength
\* check exactly when it has characters of at least two of the three
\* classes.
C26_TwoOfThree ==
    InBounds(pwd) => ((pwd.err = Nil) = (Cardinality(ClassesOf(pwd.cs)) >= 2))

\* C26 (amended): a password within the length bounds passes the strength
\* check exactly when one of its lines (a stretch without a line break) has
\* characters of all three classes; so a password of two classes only never
\* passes, and one without a line break passes exactly when it has all
\* three.
C26_AllThreeInLine ==
    InBounds(pwd) =>
        LET cs == pwd.cs
            lines == {<<a, b>> \in (1..Len(cs)) \X (1..Len(cs)) :
                         a <= b /\ \A m \in a..b : cs[m] # "N"}
        IN /\ (pwd.err = Nil) =
                 (\E l \in lines : ClassesOf(SubSeq(cs, l[1], l[2])) = {"U", "L", "D"})
           /\ pwd.err # Nil => pwd.err = ErrPasswordWeak
           /\ Cardinality(ClassesOf(cs)) <= 2 => pwd.err = ErrPasswordWeak

C26_Witness ==
    /\ InBounds(pwd)
    /\ ClassesOf(pwd.cs) = {"U", "D"}
    /\ \A i \in 1..Len(pwd.cs) : pwd.cs[i] # "N"
    /\ pwd.err = ErrPasswordWeak

\* C27: no step removes a denylist entry before the end of its TTL or
\* replaces it by one that ends earlier, whether the step belongs to a login,
\* a refresh, a logout or a password reset; and a token for which a refresh
\* has returned a pair is on the denylist for as long as it is unexpired.
C27_NoEarlyRemoval ==
    /\ [][\A k \in DOMAIN denylist :
            now' < denylist[k].at + denylist[k].ttl =>
                /\ k \in DOMAIN denylist'
                /\ denylist'[k].at + denylist'[k].ttl >= denylist[k].at + denylist[k].ttl
         ]_vars
    /\ [](\A tk \in spent :
            Unexpired(tk, now) => tk \in Live(now) /\ isTokenBlacklisted(tk, now, FALSE))

C27_Witness ==
    /\ \E tk \in spent : Unexpired(tk, now) /\ tk \in Live(now) /\ denylist[tk].at < now
    /\ \E p \in Procs :
          /\ ResetDone(p) /\ rcall[p].err = Nil /\ rcall[p].changed
          /\ rcall[p].tok \notin DOMAIN resets
    /\ users["u1"].password = HashPassword(NewPassword)

\* C28: the pair a refreshTokens call returns carries the subject of the
\* presented token in its access and in its refresh token; and every token
\* issued along the chains of refreshes that began with logins of an account
\* has that account as its subject.
C28_SubjectPreserved ==
    /\ \A p \in Procs :
          (Refreshed(p) /\ proc[p].err = Nil) =>
              /\ proc[p].pair.access.sub = proc[p].tok.sub
              /\ proc[p].pair.refresh.sub = proc[p].tok.sub
    /\ UNION {origin[a] : a \in UserIds} = issued
    /\ \A a \in UserIds : \A tk \in origin[a] : tk.sub = a

C28_Witness ==
    \E p \in Procs :
        /\ Refreshed(p) /\ proc[p].err = Nil
        /\ proc[p].tok.sub = "u2"
        /\ proc[p].tok \in spent
        /\ \E t0 \in spent : t0 # proc[p].tok /\ t0.sub = "u2"
        /\ proc[p].pair.refresh \notin spent

\* C29: when the service-level Google callback fails, the handler answers
\* with the 401 "OAuth authentication failed" response and stops: no
\* cookie is set, no redirect is issued and the absent token pair is not
\* touched.
C29_FailureStops ==
    (callback.phase = "done" /\ callback.err # Nil) =>
        /\ callback.status = 401
        /\ callback.error = OAuthFailed
        /\ callback.cookies = {}
        /\ ~callback.redirect
        /\ ~callback.panic

\* A step of the call of p, and the store, the issued tokens and the
\* directory as one value.
StepOf(p) == proc'[p] # proc[p]
Written == <<denylist, issued, spent, users, resets>>

\* C30: a refreshTokens call that returns an error writes nothing.  The only
\* step of a refresh call that writes leads to service.go:258, from where
\* the call returns a pair and no error; every other step of it, the one
\* that rejects the call included, leaves the denylist, the issued tokens
\* and the directory as they are; and no step of a refresh call, accepted
\* or rejected, touches the denylist entry of a token other than the one
\* presented, so the successors of a replayed token stay valid.
C30_ErrorWritesNothing ==
    [][\A p \in Procs :
         (StepOf(p) /\ proc'[p].op = "refresh") =>
             /\ (proc'[p].pc = "done" /\ proc'[p].err # Nil) => Written' = Written
             /\ Written' # Written => proc'[p].pc = "r258" \/ proc[p].pc = "r258"
             /\ proc[p].pc = "r258" => proc'[p].pc = "done" /\ proc'[p].err = Nil
             /\ \A k \in (DOMAIN denylist \cup DOMAIN denylist') \ {proc'[p].tok} :
                   /\ k \in DOMAIN denylist /\ k \in DOMAIN denylist'
                   /\ denylist'[k] = denylist[k]
      ]_vars

\* A call was rejected because the account of its token is gone, and the
\* token, validly signed and unexpired, is not on the denylist.
C30_Witness ==
    \E p \in Procs :
        /\ Refreshed(p) /\ proc[p].err = ErrInvalidRefreshToken
        /\ proc[p].fault = "none"
        /\ ValidlySigned(proc[p].tok, JWTSecret) /\ Unexpired(proc[p].tok, now)
        /\ ~users[proc[p].tok.sub].present
        /\ proc[p].tok \notin DOMAIN denylist
        /\ proc[p].tok \notin spent

\* C31: two distinct issuances never share a denylist key: the refresh token
\* a successful Login returns is a string no earlier issuance returned, and
\* it is not on the denylist, whatever the time since the earlier issuance,
\* so that denylisting the token of one session does not reject another.
C31_DistinctIssuances ==
    [][\A p \in Procs :
         (StepOf(p) /\ proc'[p].op = "login" /\ proc'[p].err = Nil) =>
             /\ proc'[p].pair.refresh \notin issued
             /\ proc'[p].pair.refresh \notin Live(now)]_vars

\* C32: after a Logout whose refresh cookie held a validly signed,
\* unexpired refresh token T and whose store write was accepted, every
\* refreshTokens(T) that starts later and returns before T expires fails
\* with ErrInvalidRefreshToken and returns no pair.
C32_LogoutRevokes ==
    [][\A p \in Procs :
         (/\ StepOf(p)
          /\ proc'[p].op = "refresh" /\ proc'[p].pc = "done"
          /\ p \in logout'.later
          /\ Unexpired(proc'[p].tok, now)) =>
             proc'[p].err = ErrInvalidRefreshToken /\ proc'[p].pair = NoPair]_vars

\* C33: every key written to the denylist was, at the moment of writing, a
\* refresh token validly signed under the secret and unexpired, and it was
\* written with a positive time to live: no step of Logout or refreshTokens
\* writes an entry for a garbage string, a tampered token, an access token
\* or an expired token.
C33_OnlyLiveRefreshKeys ==
    /\ \A k \in DOMAIN denylist :
          /\ ValidlySigned(k, JWTSecret)
          /\ k.typ = TokenTypeRefresh
          /\ Unexpired(k, denylist[k].at)
          /\ denylist[k].ttl > 0
    /\ \A p \in Procs :
          (/\ proc[p].op \in {"logout", "refresh"} /\ proc[p].pc = "done"
           /\ DecryptJWT(proc[p].tok, JWTSecret, TokenTypeRefresh, 0).err
                 \notin {Nil, ErrExpiredToken}) =>
              proc[p].tok \notin DOMAIN denylist /\ proc[p].err # Nil

\* A Logout wrote the key of its refresh token, and a Logout whose refresh
\* cookie held an access token ended without writing a key.
C33_Witness ==
    /\ logout.done # {}
    /\ \E p \in Procs :
          /\ proc[p].op = "logout" /\ proc[p].pc = "done"
          /\ proc[p].tok.typ = TokenTypeAccess
          /\ ValidlySigned(proc[p].tok, JWTSecret) /\ Unexpired(proc[p].tok, now)
          /\ proc[p].err = ErrInvalidTokenType
          /\ proc[p].tok \notin DOMAIN denylist

\* C34: among the ResetPassword calls that present the same reset token, at
\* most one updates the password and returns success; stated for the runs
\* in which no store or directory call fails, where a second success can
\* only come from interleaving.
C34_OneResetWins ==
    [][faults' = 0 =>
         \A p \in Procs :
            (/\ rcall[p].pc = "d195" /\ rcall'[p].pc = "done"
             /\ rcall'[p].err = Nil /\ rcall[p].changed) =>
                ~links[rcall[p].tok].used]_vars

\* The step in which the call of p updates the password, and the step in
\* which it deletes the key and returns.
Updates(p) == rcall[p].pc = "u190" /\ rcall'[p].pc = "d195"
Deletes(p) == rcall[p].pc = "d195" /\ rcall'[p].pc = "done"

\* The reset keys and the accounts other than the given ones are as before.
OtherKeysKept(tk) ==
    \A k \in (DOMAIN resets \cup DOMAIN resets') \ {tk} :
        k \in DOMAIN resets /\ k \in DOMAIN resets' /\ resets'[k] = resets[k]
OtherAccountsKept(id) == \A a \in UserIds \ {id} : users'[a] = users[a]

ResetStepOf(p) == rcall'[p] # rcall[p] /\ rcall'[p].pc # "idle"

\* C36: a ResetPassword call that returns an error changes no password and
\* deletes no reset key.  The step that ends a call with an error leaves the
\* directory and the store as they are; the only steps of a call that write
\* are the password update, which leads to service.go:195, and the Del at
\* service.go:195, which ends the call without an error.
C36_ErrorChangesNothing ==
    [][\A p \in Procs :
         ResetStepOf(p) =>
             /\ (rcall'[p].pc = "done" /\ rcall'[p].err # Nil) =>
                   users' = users /\ resets' = resets
             /\ (users' # users \/ resets' # resets) =>
                   rcall'[p].pc = "d195" \/ rcall[p].pc = "d195"
             /\ rcall[p].pc = "d195" => rcall'[p].pc = "done" /\ rcall'[p].err = Nil
      ]_vars

\* A call ended with the error of a failed password update; its token is
\* still in the store and the account has the password it had.
C36_Witness ==
    \E p \in Procs :
        /\ ResetDone(p) /\ rcall[p].err = ErrUpdatePassword
        /\ rcall[p].tok \in DOMAIN resets
        /\ resets[rcall[p].tok].ttl < PasswordResetTokenLifetime
        /\ users["u1"].present
        /\ users["u1"].password = HashPassword(GoodPassword)

\* C37: RequestPasswordReset stores the token before it sends the mail.
\* When the store write fails, nothing is stored, no mail is attempted and
\* the store error is returned; when the mail fails, the mail error is
\* returned and the key written before it is in the store with the full
\* TTL; and the key of the last request, whatever the mailer did, is in the
\* store exactly until its TTL has run out.
C37_StoreThenMail ==
    /\ [][\A e \in RequestEmails, sf, mf \in BOOLEAN :
            RequestPasswordReset(e, sf, mf) =>
                LET tk == Len(links') IN
                /\ sf => /\ resets' = resets
                         /\ ~request'.mailed
                         /\ request'.err = ErrResetStore
                /\ (~sf /\ mf) =>
                         /\ request'.mailed
                         /\ request'.err = ErrResetMail
                         /\ tk \in DOMAIN resets'
                         /\ resets'[tk] = [email |-> e, ttl |-> PasswordResetTokenLifetime]
                         /\ \A k \in DOMAIN resets : resets'[k] = resets[k]
         ]_vars
    /\ [](request.err = ErrResetMail =>
            LET tk == Len(links) IN
            /\ tk \in DOMAIN resets <=> links[tk].age < PasswordResetTokenLifetime
            /\ tk \in DOMAIN resets =>
                  resets[tk].ttl = PasswordResetTokenLifetime - links[tk].age)

\* The mail of the last request failed, time has passed since, and the
\* token is still in the store.
C37_Witness ==
    /\ request.err = ErrResetMail
    /\ request.mailed
    /\ Len(links) \in DOMAIN resets
    /\ resets[Len(links)].ttl = 1
    /\ links[Len(links)].age = PasswordResetTokenLifetime - 1

\* C38: after any sequence of CreateSubreddit, JoinSubreddit and
\* LeaveSubreddit calls, the member_count of every subreddit equals the
\* number of membership rows recorded for it.
C38_CountMatchesRows ==
    \A s \in DOMAIN subreddit.subreddits :
        subreddit.subreddits[s].MemberCount = Cardinality(MemberRows(s))

====
